---- MODULE Spec2Model ----
(***************************************************************************)
(* Tabular import pipeline of the election-monitoring backend:             *)
(*   backend/app/utils/csv_import.py   validators and importers            *)
(*   backend/app/api/v1/admin.py       bulk_import (six entity kinds)      *)
(*   backend/app/api/v1/geography.py   import_csv (three geography kinds)  *)
(*   backend/app/crud/*.py, schemas/*.py   create checks and field rules   *)
(*                                                                         *)
(* A parsed table is a set of column names and a sequence of rows; a row   *)
(* maps each column to a cell.  A cell is what pandas hands to the code:   *)
(* a missing value, an integer, a float, a text, an infinity or a boolean. *)
(* The store is one sequence of records per table; an entity's id is its   *)
(* position (ids are assigned in insertion order and the pipeline never    *)
(* deletes).  Nullable columns hold {} (NULL) or {v}.  Creation and        *)
(* modification timestamps are not modelled; column length limits of the   *)
(* database are not modelled.                                              *)
(***************************************************************************)
EXTENDS Integers, Sequences, FiniteSets, TLC

VARIABLES db, logs, last, calls, seen

vars == <<db, logs, last, calls, seen>>

(***************************************************************************)
(* Bounds of the model.                                                    *)
(***************************************************************************)
\* Rows of an uploaded table.
MaxRows == 2

(***************************************************************************)
(* Cells and the Python conversions the code applies to them.              *)
(***************************************************************************)
NaN == [k |-> "nan", n |-> 0, s |-> ""]
Inf == [k |-> "inf", n |-> 0, s |-> ""]
I(n) == [k |-> "int", n |-> n, s |-> ""]
F(n) == [k |-> "float", n |-> n, s |-> ""]
S(s) == [k |-> "str", n |-> 0, s |-> s]
B(b) == [k |-> "bool", n |-> IF b THEN 1 ELSE 0, s |-> ""]

\* Texts of the model are free of surrounding whitespace, except this one.
Spaces == "   "

None == {}
Some(v) == {v}
Val(o) == CHOOSE v \in o : TRUE

Ok(v) == [exc |-> "", v |-> v]
Raise(e) == [exc |-> e, v |-> None]

\* pd.isna(x); row.get(col) is None for an absent column, and None is "na".
IsNa(c) == c.k = "nan"
NotNa(c) == ~IsNa(c)
Has(row, col) == col \in DOMAIN row
GetIsNa(row, col) == IF Has(row, col) THEN IsNa(row[col]) ELSE TRUE

\* str(x).strip()
PyStr(c) ==
    CASE c.k = "nan" -> "nan"
      [] c.k = "inf" -> "inf"
      [] c.k = "int" -> ToString(c.n)
      [] c.k = "float" -> ToString(c.n) \o ".0"
      [] c.k = "bool" -> IF c.n = 1 THEN "True" ELSE "False"
      [] OTHER -> IF c.s = Spaces THEN "" ELSE c.s

\* int(x): a text of the model is never a numeral; int(nan) is a ValueError
\* and int(inf) an OverflowError.
PyInt(c) ==
    CASE c.k \in {"int", "float", "bool"} -> Ok(c.n)
      [] c.k = "inf" -> Raise("OverflowError")
      [] OTHER -> Raise("ValueError")

\* float(x): float(nan) and float(inf) succeed.
PyFloat(c) ==
    CASE c.k \in {"int", "float", "bool", "nan", "inf"} -> Ok(c)
      [] OTHER -> Raise("ValueError")

\* bool(x): nan, inf and every non-empty text are truthy.
PyBool(c) ==
    CASE c.k \in {"int", "float", "bool"} -> c.n # 0
      [] c.k = "str" -> c.s # ""
      [] OTHER -> TRUE

\* A float as the comparisons of the validators see it.
FloatBelow(c, lo) == c.k \in {"int", "float", "bool"} /\ c.n < lo
FloatAbove(c, hi) == c.k = "inf" \/ (c.k \in {"int", "float", "bool"} /\ c.n > hi)

\* Length classes of the texts of the model: empty, one character, longer.
OneChar == {"A", "B"}
TextLen(s) == IF s = "" THEN 0 ELSE IF s \in OneChar THEN 1 ELSE 2

\* "<expr> if col in row and pd.notna(row[col]) else None"
OptStr(row, col) ==
    IF Has(row, col) /\ NotNa(row[col]) THEN Some(PyStr(row[col])) ELSE None
OptInt(row, col) ==
    IF Has(row, col) /\ NotNa(row[col])
    THEN LET r == PyInt(row[col]) IN IF r.exc = "" THEN Ok(Some(r.v)) ELSE r
    ELSE Ok(None)
OptFloat(row, col) ==
    IF Has(row, col) /\ NotNa(row[col])
    THEN LET r == PyFloat(row[col]) IN IF r.exc = "" THEN Ok(Some(r.v)) ELSE r
    ELSE Ok(None)
\* "str(row[col]).strip() if col in row else None" (no notna test)
OptStrRaw(row, col) == IF Has(row, col) THEN Some(PyStr(row[col])) ELSE None
\* "bool(row[col]) if col in row else <default>"
BoolOr(row, col, default) == IF Has(row, col) THEN PyBool(row[col]) ELSE default

\* The first exception among evaluation results, in evaluation order.
RECURSIVE FirstExc(_)
FirstExc(rs) ==
    IF rs = <<>> THEN ""
    ELSE IF Head(rs).exc # "" THEN Head(rs).exc ELSE FirstExc(Tail(rs))

(***************************************************************************)
(* Error entries.                                                          *)
(***************************************************************************)
\* Variant: the missing-column entry tagged with the first data row.
MissingColumnsErrorOnFirstRow(missing) ==
    [row |-> 2, column |-> missing, error |-> <<"Missing required columns">>]

\* {"row": 0, "column": ",".join(missing), "error": "Missing required columns: ..."}
MissingColumnsError(missing) ==
    [row |-> 0, column |-> missing, error |-> <<"Missing required columns">>]
\* {"row": row_num, "column": col, "error": msg}
ColumnError(row_num, col, msg) ==
    [row |-> row_num, column |-> {col}, error |-> msg]
\* {"row": idx + 2, "error": msg}
\* Variant: importer errors number the data rows from 1.
RowErrorCountsFromOne(idx, msg) == [row |-> idx + 1, error |-> msg]
RowError(idx, msg) == [row |-> idx + 2, error |-> msg]
\* f"{col.replace('_', ' ').title()} is required"
RequiredMsg(col) == <<"is required", col>>

\* A validator's result: the error list, or the exception it raised.
VOk(errors) == [raised |-> "", errors |-> errors]
VRaise(e) == [raised |-> e, errors |-> <<>>]

\* "if pd.isna(row.get(col)) or str(row[col]).strip() == '': errors.append(...)"
RequiredCheck(row, row_num, col, msg) ==
    IF GetIsNa(row, col) \/ PyStr(row[col]) = ""
    THEN <<ColumnError(row_num, col, msg)>> ELSE <<>>

\* "for col in required_columns: ..." (iteration order of a set: any fixed one)
RECURSIVE RequiredChecks(_, _, _)
RequiredChecks(row, row_num, cols) ==
    IF cols = {} THEN <<>>
    ELSE LET c == CHOOSE x \in cols : TRUE
         IN RequiredCheck(row, row_num, c, RequiredMsg(c))
            \o RequiredChecks(row, row_num, cols \ {c})

\* Concatenation of per-row error lists, rows 1..n of the table (idx = i - 1).
RECURSIVE PerRow(_, _, _)
PerRow(Check(_, _), rows, i) ==
    IF i > Len(rows) THEN <<>>
    ELSE Check(rows[i], i + 1) \o PerRow(Check, rows, i + 1)

(***************************************************************************)
(* The store.                                                              *)
(***************************************************************************)
EmptyDb ==
    [division |-> <<>>, district |-> <<>>, constituency |-> <<>>,
     party |-> <<>>, candidate |-> <<>>, polling_center |-> <<>>,
     polling_result |-> <<>>, voter_demographics |-> <<>>,
     constituency_result |-> <<>>]

\* query.filter(...).first(): the matching row of lowest id, 0 for None.
First(tbl, P(_)) ==
    LET m == {i \in 1..Len(tbl) : P(tbl[i])}
    IN IF m = {} THEN 0 ELSE CHOOSE i \in m : \A j \in m : i <= j

\* db.add(obj) of a new object, committed.
Insert(d, t, e) == [d EXCEPT ![t] = Append(@, e)]
\* Variant: an update stores the changed record next to the old one.
UpdateAppendsCopy(d, t, id, upd) ==
    [d EXCEPT ![t] = Append(@, [f \in DOMAIN @[id] |->
                                  IF f \in DOMAIN upd THEN upd[f] ELSE @[id][f]])]
\* setattr(existing, field, value) for every item of update_data, committed.
Update(d, t, id, upd) ==
    [d EXCEPT ![t][id] = [f \in DOMAIN @ |-> IF f \in DOMAIN upd THEN upd[f] ELSE @[f]]]

\* One row's outcome in an importer: the store after it and its error entry.
RowOk(d) == [db |-> d, ok |-> TRUE, err |-> <<>>]
\* Variant: a failed row discards what the store held.
RowFailDiscardsStore(d, e) == [db |-> EmptyDb, ok |-> FALSE, err |-> <<e>>]
RowFail(d, e) == [db |-> d, ok |-> FALSE, err |-> <<e>>]


\* Variant: a failed row is not counted.
TallyForgetsFailures(acc, r, idx) ==
    [db |-> r.db,
     successful |-> acc.successful + (IF r.ok THEN 1 ELSE 0),
     failed |-> acc.failed,
     errors |-> acc.errors \o r.err,
     attempted |-> Append(acc.attempted, idx)]

\* Variant: the loop ends at the first failed row.
TallyStopsAtFailure(acc, r, idx) ==
    IF acc.failed > 0 THEN acc
    ELSE [db |-> r.db,
          successful |-> acc.successful + (IF r.ok THEN 1 ELSE 0),
          failed |-> acc.failed + (IF r.ok THEN 0 ELSE 1),
          errors |-> acc.errors \o r.err,
          attempted |-> Append(acc.attempted, idx)]

\* The accumulators of an importer's row loop after one row:
\* "successful += 1" at the end of the try block, "failed += 1" with
\* errors.append(...) on a failed lookup, a failed check or an exception.
Tally(acc, r, idx) ==
    [db |-> r.db,
     successful |-> acc.successful + (IF r.ok THEN 1 ELSE 0),
     failed |-> acc.failed + (IF r.ok THEN 0 ELSE 1),
     errors |-> acc.errors \o r.err,
     attempted |-> Append(acc.attempted, idx)]

\* "for idx, row in df.iterrows(): try: ... except Exception as e: ..."
RECURSIVE RowLoop(_, _, _, _)
RowLoop(Step(_, _, _), acc, rows, i) ==
    IF i > Len(rows) THEN acc
    ELSE RowLoop(Step, Tally(acc, Step(acc.db, rows[i], i - 1), i - 1), rows, i + 1)

\* An importer's run: the row loop, db.commit() and the report it returns.
RunImporter(Step(_, _, _), d, t) ==
    LET acc == RowLoop(Step,
                       [db |-> d, successful |-> 0, failed |-> 0,
                        errors |-> <<>>, attempted |-> <<>>],
                       t.rows, 1)
    IN [db |-> acc.db,
        attempted |-> acc.attempted,
        report |-> [total_rows |-> Len(t.rows),
                    successful_rows |-> acc.successful,
                    failed_rows |-> acc.failed,
                    errors |-> acc.errors]]

(***************************************************************************)
(* Division, district, constituency.                                       *)
(***************************************************************************)
validate_division_csv(t) ==
    LET missing == {"name", "code"} \ t.cols
        Count(code) == Cardinality({j \in 1..Len(t.rows) : t.rows[j]["code"] = code})
        Check(row, row_num) ==
            RequiredCheck(row, row_num, "name", <<"Division name is required">>)
            \o RequiredCheck(row, row_num, "code", <<"Division code is required">>)
            \o (IF Count(row["code"]) > 1
                THEN <<ColumnError(row_num, "code",
                                   <<"Duplicate division code", PyStr(row["code"])>>)>>
                ELSE <<>>)
    IN IF missing # {} THEN VOk(<<MissingColumnsError(missing)>>)
       \* df["code"].value_counts() drops missing values: code_counts[nan]
       \* is a KeyError
       ELSE IF \E j \in 1..Len(t.rows) : IsNa(t.rows[j]["code"]) THEN VRaise("KeyError")
       ELSE VOk(PerRow(Check, t.rows, 1))

validate_district_csv(t) ==
    LET missing == {"name", "code", "division_name"} \ t.cols
        Check(row, row_num) ==
            RequiredCheck(row, row_num, "name", <<"District name is required">>)
            \o RequiredCheck(row, row_num, "code", <<"District code is required">>)
            \o RequiredCheck(row, row_num, "division_name", <<"Division name is required">>)
    IN IF missing # {} THEN VOk(<<MissingColumnsError(missing)>>)
       ELSE VOk(PerRow(Check, t.rows, 1))

validate_constituency_csv(t) ==
    LET missing == {"name", "number", "district_name", "division_name"} \ t.cols
        Check(row, row_num) ==
            RequiredCheck(row, row_num, "name", <<"Constituency name is required">>)
            \o RequiredCheck(row, row_num, "number", <<"Constituency number is required">>)
            \o RequiredCheck(row, row_num, "district_name", <<"District name is required">>)
            \o RequiredCheck(row, row_num, "division_name", <<"Division name is required">>)
    IN IF missing # {} THEN VOk(<<MissingColumnsError(missing)>>)
       ELSE VOk(PerRow(Check, t.rows, 1))

\* CRUDDivision.update, CRUDDistrict.update, CRUDConstituency.update as the
\* importers call them: obj_in is a dict, and obj_in.model_dump(...) on the
\* first line is an AttributeError, before any attribute is set.
CrudUpdateWithDict(d, t, id, upd) == Raise("AttributeError")

\* DivisionCreate(...): name and code of at least 2 characters.
DivisionCreateValid(e) == TextLen(e.name) >= 2 /\ TextLen(e.code) >= 2
\* CRUDDivision.create: 400 when a division has this code or this name.
DivisionCreateConflict(d, e) ==
    First(d.division, LAMBDA x : x.code = e.code \/ x.name = e.name) # 0

ImportDivisionRow(d, row, idx) ==
    LET code == PyStr(row["code"])
        existing == First(d.division, LAMBDA x : x.code = code)
        tp == OptInt(row, "total_population")
        tv == OptInt(row, "total_voters")
        exc == FirstExc(<<tp, tv>>)
        new == [name |-> PyStr(row["name"]), code |-> code,
                bengali_name |-> OptStrRaw(row, "bengali_name"),
                total_population |-> tp.v, total_voters |-> tv.v]
        upd == [name |-> new.name, bengali_name |-> new.bengali_name,
                total_population |-> tp.v, total_voters |-> tv.v]
    IN IF exc # "" THEN RowFail(d, RowError(idx, <<exc>>))
       ELSE IF existing # 0
       THEN LET u == CrudUpdateWithDict(d, "division", existing, upd)
            IN IF u.exc # "" THEN RowFail(d, RowError(idx, <<u.exc>>))
               ELSE RowOk(u.v)
       ELSE IF ~DivisionCreateValid(new)
       THEN RowFail(d, RowError(idx, <<"ValidationError">>))
       ELSE IF DivisionCreateConflict(d, new)
       THEN RowFail(d, RowError(idx, <<"HTTPException", "Division with this code or name already exists">>))
       ELSE RowOk(Insert(d, "division", new))

import_division_data(d, t) == RunImporter(ImportDivisionRow, d, t)

\* DistrictCreate(...): name and code of at least 2 characters.
DistrictCreateValid(e) == TextLen(e.name) >= 2 /\ TextLen(e.code) >= 2
\* CRUDDistrict.create: 400 when the division has a district of this code.
DistrictCreateConflict(d, e) ==
    First(d.district, LAMBDA x : x.code = e.code /\ x.division_id = e.division_id) # 0

\* Variant: a district row is stored whether or not its division is found.
ImportDistrictRowUnchecked(d, row, idx) ==
    LET division_name == PyStr(row["division_name"])
        division == First(d.division, LAMBDA x : x.name = division_name)
    IN RowOk(Insert(d, "district",
                    [name |-> PyStr(row["name"]), code |-> PyStr(row["code"]),
                     bengali_name |-> OptStrRaw(row, "bengali_name"),
                     division_id |-> division,
                     area_sq_km |-> None, total_voters |-> None]))

ImportDistrictRow(d, row, idx) ==
    LET division_name == PyStr(row["division_name"])
        division == First(d.division, LAMBDA x : x.name = division_name)
        code == PyStr(row["code"])
        existing == First(d.district,
                          LAMBDA x : x.code = code /\ x.division_id = division)
        ar == OptInt(row, "area_sq_km")
        tv == OptInt(row, "total_voters")
        exc == FirstExc(<<ar, tv>>)
        new == [name |-> PyStr(row["name"]), code |-> code,
                bengali_name |-> OptStrRaw(row, "bengali_name"),
                division_id |-> division,
                area_sq_km |-> ar.v, total_voters |-> tv.v]
        upd == [name |-> new.name, bengali_name |-> new.bengali_name,
                area_sq_km |-> ar.v, total_voters |-> tv.v]
    IN IF division = 0
       THEN RowFail(d, RowError(idx, <<"Division not found", division_name>>))
       ELSE IF exc # "" THEN RowFail(d, RowError(idx, <<exc>>))
       ELSE IF existing # 0
       THEN LET u == CrudUpdateWithDict(d, "district", existing, upd)
            IN IF u.exc # "" THEN RowFail(d, RowError(idx, <<u.exc>>))
               ELSE RowOk(u.v)
       ELSE IF ~DistrictCreateValid(new)
       THEN RowFail(d, RowError(idx, <<"ValidationError">>))
       ELSE IF DistrictCreateConflict(d, new)
       THEN RowFail(d, RowError(idx, <<"HTTPException", "District with this code already exists in this division">>))
       ELSE RowOk(Insert(d, "district", new))

import_district_data(d, t) == RunImporter(ImportDistrictRow, d, t)

\* ConstituencyCreate(...): name of at least 2 characters, number of at least 1.
ConstituencyCreateValid(e) == TextLen(e.name) >= 2 /\ TextLen(e.number) >= 1
\* CRUDConstituency.create: 400 when the district has this number.
ConstituencyCreateConflict(d, e) ==
    First(d.constituency,
          LAMBDA x : x.number = e.number /\ x.district_id = e.district_id) # 0

ImportConstituencyRow(d, row, idx) ==
    LET division_name == PyStr(row["division_name"])
        district_name == PyStr(row["district_name"])
        division == First(d.division, LAMBDA x : x.name = division_name)
        district == First(d.district,
                          LAMBDA x : x.name = district_name /\ x.division_id = division)
        number == PyStr(row["number"])
        existing == First(d.constituency,
                          LAMBDA x : x.number = number /\ x.district_id = district)
        tv == OptInt(row, "total_voters")
        new == [name |-> PyStr(row["name"]), number |-> number,
                district_id |-> district,
                area_description |-> OptStrRaw(row, "area_description"),
                total_voters |-> tv.v,
                is_active |-> BoolOr(row, "is_active", TRUE)]
        upd == [name |-> new.name, area_description |-> new.area_description,
                total_voters |-> tv.v, is_active |-> new.is_active]
    IN IF division = 0
       THEN RowFail(d, RowError(idx, <<"Division not found", division_name>>))
       ELSE IF district = 0
       THEN RowFail(d, RowError(idx, <<"District not found", district_name, division_name>>))
       ELSE IF tv.exc # "" THEN RowFail(d, RowError(idx, <<tv.exc>>))
       ELSE IF existing # 0
       THEN LET u == CrudUpdateWithDict(d, "constituency", existing, upd)
            IN IF u.exc # "" THEN RowFail(d, RowError(idx, <<u.exc>>))
               ELSE RowOk(u.v)
       ELSE IF ~ConstituencyCreateValid(new)
       THEN RowFail(d, RowError(idx, <<"ValidationError">>))
       ELSE IF ConstituencyCreateConflict(d, new)
       THEN RowFail(d, RowError(idx, <<"HTTPException", "Constituency with this number already exists in this district">>))
       ELSE RowOk(Insert(d, "constituency", new))

import_constituency_data(d, t) == RunImporter(ImportConstituencyRow, d, t)


(***************************************************************************)
(* Checks shared by the validators of the six bulk_import kinds.           *)
(***************************************************************************)
\* "if col in df.columns and pd.notna(row.get(col)): try: v = int(row[col]);
\*  if v < lo or v > hi: <range error>  except ValueError: <number error>"
\* (hi = -1 stands for no upper limit).
IntCheck(t, row, row_num, col, lo, hi, range_msg, number_msg) ==
    IF col \in t.cols /\ ~GetIsNa(row, col)
    THEN LET r == PyInt(row[col])
         IN IF r.exc = "ValueError" THEN <<ColumnError(row_num, col, number_msg)>>
            ELSE IF r.exc = "" /\ (r.v < lo \/ (hi >= 0 /\ r.v > hi))
            THEN <<ColumnError(row_num, col, range_msg)>>
            ELSE <<>>
    ELSE <<>>
\* The same try block lets any other exception of int() escape the validator.
IntEscapes(t, row, col) ==
    col \in t.cols /\ ~GetIsNa(row, col) /\ PyInt(row[col]).exc \notin {"", "ValueError"}

\* The float counterpart (latitude, longitude, turnout_percentage).
FloatCheck(t, row, row_num, col, lo, hi, range_msg, number_msg) ==
    IF col \in t.cols /\ ~GetIsNa(row, col)
    THEN LET r == PyFloat(row[col])
         IN IF r.exc = "ValueError" THEN <<ColumnError(row_num, col, number_msg)>>
            ELSE IF FloatBelow(r.v, lo) \/ FloatAbove(r.v, hi)
            THEN <<ColumnError(row_num, col, range_msg)>>
            ELSE <<>>
    ELSE <<>>

\* A validator over the bulk kinds: the missing-column short circuit, then
\* the per-row checks unless one of them lets an exception escape.
RunValidator(t, required, Check(_, _), Escapes(_)) ==
    LET missing == required \ t.cols
    IN IF missing # {} THEN VOk(<<MissingColumnsError(missing)>>)
       ELSE IF \E j \in 1..Len(t.rows) : Escapes(t.rows[j]) THEN VRaise("OverflowError")
       ELSE VOk(PerRow(Check, t.rows, 1))

\* A float field of a pydantic schema with ge/le limits.
FloatInRange(c, lo, hi) == c.k = "float" /\ lo <= c.n /\ c.n <= hi
\* float(x) as stored: int and bool cells become floats.
AsFloat(c) == IF c.k \in {"int", "bool"} THEN F(c.n) ELSE c
OptAsFloat(r) == IF r.v = None THEN None ELSE Some(AsFloat(Val(r.v)))

(***************************************************************************)
(* Party.                                                                  *)
(***************************************************************************)
validate_party_csv(t) ==
    LET Check(row, row_num) ==
            RequiredCheck(row, row_num, "name", <<"Party name is required">>)
    IN RunValidator(t, {"name"}, Check, LAMBDA row : FALSE)

\* color_code: pattern "^#[0-9A-Fa-f]{6}$"
HexColors == {"#006A4E", "#3C8D2F"}
\* PartyCreate(...): name of at least 2 characters, color_code a hex colour.
PartyCreateValid(e) ==
    TextLen(e.name) >= 2 /\ (e.color_code = None \/ Val(e.color_code) \in HexColors)
\* CRUDParty.create: 400 when a party has this name.
PartyCreateConflict(d, e) == First(d.party, LAMBDA x : x.name = e.name) # 0

ImportPartyRow(d, row, idx) ==
    LET party_name == PyStr(row["name"])
        existing == First(d.party, LAMBDA x : x.name = party_name)
        upd == [acronym |-> OptStr(row, "acronym"),
                symbol_name |-> OptStr(row, "symbol_name"),
                color_code |-> OptStr(row, "color_code"),
                is_registered |-> BoolOr(row, "is_registered", TRUE)]
        new == [name |-> party_name, acronym |-> upd.acronym,
                symbol_name |-> upd.symbol_name, color_code |-> upd.color_code,
                is_registered |-> upd.is_registered]
    IN IF existing # 0 THEN RowOk(Update(d, "party", existing, upd))
       ELSE IF ~PartyCreateValid(new)
       THEN RowFail(d, RowError(idx, <<"ValidationError">>))
       ELSE IF PartyCreateConflict(d, new)
       THEN RowFail(d, RowError(idx, <<"HTTPException", "Party with this name already exists">>))
       ELSE RowOk(Insert(d, "party", new))

import_party_data(d, t) == RunImporter(ImportPartyRow, d, t)

(***************************************************************************)
(* Candidate.                                                              *)
(***************************************************************************)
CandidateRequired ==
    {"full_name", "party_name", "constituency_number", "election_year", "election_type"}

validate_candidate_csv(t) ==
    LET Check(row, row_num) ==
            RequiredChecks(row, row_num, CandidateRequired)
            \o IntCheck(t, row, row_num, "election_year", 1970, 2100,
                        <<"Election year must be between 1970 and 2100">>,
                        <<"Election year must be a valid number">>)
            \o IntCheck(t, row, row_num, "age", 21, 150,
                        <<"Age must be between 21 and 150">>,
                        <<"Age must be a valid number">>)
        Escapes(row) == IntEscapes(t, row, "election_year") \/ IntEscapes(t, row, "age")
    IN RunValidator(t, CandidateRequired, Check, Escapes)

\* election_type: pattern "^(National|Local|Upazila|City)$"
ElectionTypes == {"National", "Local", "Upazila", "City"}
\* CandidateCreate(...)
CandidateCreateValid(e) ==
    /\ TextLen(e.full_name) >= 2
    /\ e.age = None \/ (Val(e.age) >= 21 /\ Val(e.age) <= 150)
    /\ e.election_year >= 1970 /\ e.election_year <= 2100
    /\ e.election_type \in ElectionTypes
\* CRUDCandidate.create: 400 when (full_name, constituency_id, election_year) exists.
CandidateCreateConflict(d, e) ==
    First(d.candidate,
          LAMBDA x : /\ x.full_name = e.full_name
                     /\ x.constituency_id = e.constituency_id
                     /\ x.election_year = e.election_year) # 0

\* A variant that inserts the candidate without checking that its party and
\* constituency were found.
ImportCandidateRowUnchecked(d, row, idx) ==
    LET age == OptInt(row, "age")
    IN RowOk(Insert(d, "candidate",
           [full_name |-> PyStr(row["full_name"]),
            bengali_name |-> OptStr(row, "bengali_name"),
            age |-> age.v, education |-> OptStr(row, "education"),
            profession |-> OptStr(row, "profession"),
            party_id |-> First(d.party, LAMBDA x : x.name = PyStr(row["party_name"])),
            constituency_id |-> First(d.constituency,
                LAMBDA x : x.number = PyStr(row["constituency_number"])),
            election_year |-> PyInt(row["election_year"]).v,
            election_type |-> PyStr(row["election_type"]),
            candidate_number |-> OptStr(row, "candidate_number"),
            deposit_status |-> OptStr(row, "deposit_status"),
            is_active |-> BoolOr(row, "is_active", TRUE)]))

ImportCandidateRow(d, row, idx) ==
    LET party_name == PyStr(row["party_name"])
        party == First(d.party, LAMBDA x : x.name = party_name)
        constituency_number == PyStr(row["constituency_number"])
        constituency == First(d.constituency, LAMBDA x : x.number = constituency_number)
        year == PyInt(row["election_year"])
        full_name == PyStr(row["full_name"])
        existing == First(d.candidate,
                          LAMBDA x : /\ x.full_name = full_name
                                     /\ x.constituency_id = constituency
                                     /\ x.election_year = year.v)
        age == OptInt(row, "age")
        exc == FirstExc(<<year, age>>)
        upd == [bengali_name |-> OptStr(row, "bengali_name"),
                age |-> age.v,
                education |-> OptStr(row, "education"),
                profession |-> OptStr(row, "profession"),
                candidate_number |-> OptStr(row, "candidate_number"),
                deposit_status |-> OptStr(row, "deposit_status"),
                party_id |-> party,
                is_active |-> BoolOr(row, "is_active", TRUE)]
        new == [full_name |-> full_name, bengali_name |-> upd.bengali_name,
                age |-> age.v, education |-> upd.education,
                profession |-> upd.profession, party_id |-> party,
                constituency_id |-> constituency, election_year |-> year.v,
                election_type |-> PyStr(row["election_type"]),
                candidate_number |-> upd.candidate_number,
                deposit_status |-> upd.deposit_status,
                is_active |-> upd.is_active]
    IN IF party = 0
       THEN RowFail(d, RowError(idx, <<"Party not found", party_name>>))
       ELSE IF constituency = 0
       THEN RowFail(d, RowError(idx, <<"Constituency not found", constituency_number>>))
       ELSE IF exc # "" THEN RowFail(d, RowError(idx, <<exc>>))
       ELSE IF existing # 0 THEN RowOk(Update(d, "candidate", existing, upd))
       ELSE IF ~CandidateCreateValid(new)
       THEN RowFail(d, RowError(idx, <<"ValidationError">>))
       ELSE IF CandidateCreateConflict(d, new)
       THEN RowFail(d, RowError(idx, <<"HTTPException", "Candidate already exists for this constituency and election year">>))
       ELSE RowOk(Insert(d, "candidate", new))

import_candidate_data(d, t) == RunImporter(ImportCandidateRow, d, t)

(***************************************************************************)
(* Polling center.                                                         *)
(***************************************************************************)
PollingCenterRequired == {"code", "name", "constituency_number"}

validate_polling_center_csv(t) ==
    LET Check(row, row_num) ==
            RequiredChecks(row, row_num, PollingCenterRequired)
            \o FloatCheck(t, row, row_num, "latitude", -90, 90,
                          <<"Latitude must be between -90 and 90">>,
                          <<"Latitude must be a valid number">>)
            \o FloatCheck(t, row, row_num, "longitude", -180, 180,
                          <<"Longitude must be between -180 and 180">>,
                          <<"Longitude must be a valid number">>)
    IN RunValidator(t, PollingCenterRequired, Check, LAMBDA row : FALSE)

\* PollingCenterCreate(...)
PollingCenterCreateValid(e) ==
    /\ TextLen(e.name) >= 2 /\ TextLen(e.code) >= 2
    /\ e.latitude = None \/ FloatInRange(Val(e.latitude), -90, 90)
    /\ e.longitude = None \/ FloatInRange(Val(e.longitude), -180, 180)
    /\ e.total_voters = None \/ Val(e.total_voters) >= 0
\* CRUDPollingCenter.create: 400 when a polling center has this code.
PollingCenterCreateConflict(d, e) ==
    First(d.polling_center, LAMBDA x : x.code = e.code) # 0

ImportPollingCenterRow(d, row, idx) ==
    LET constituency_number == PyStr(row["constituency_number"])
        constituency == First(d.constituency, LAMBDA x : x.number = constituency_number)
        code == PyStr(row["code"])
        existing == First(d.polling_center, LAMBDA x : x.code = code)
        lat == OptFloat(row, "latitude")
        lon == OptFloat(row, "longitude")
        tv == OptInt(row, "total_voters")
        exc == FirstExc(<<lat, lon, tv>>)
        upd == [name |-> PyStr(row["name"]), constituency_id |-> constituency,
                location |-> OptStr(row, "location"),
                latitude |-> OptAsFloat(lat), longitude |-> OptAsFloat(lon),
                total_voters |-> tv.v,
                is_active |-> BoolOr(row, "is_active", TRUE)]
        new == [code |-> code, name |-> upd.name, constituency_id |-> constituency,
                location |-> upd.location, latitude |-> upd.latitude,
                longitude |-> upd.longitude, total_voters |-> tv.v,
                is_active |-> upd.is_active]
    IN IF constituency = 0
       THEN RowFail(d, RowError(idx, <<"Constituency not found", constituency_number>>))
       ELSE IF exc # "" THEN RowFail(d, RowError(idx, <<exc>>))
       ELSE IF existing # 0 THEN RowOk(Update(d, "polling_center", existing, upd))
       ELSE IF ~PollingCenterCreateValid(new)
       THEN RowFail(d, RowError(idx, <<"ValidationError">>))
       ELSE IF PollingCenterCreateConflict(d, new)
       THEN RowFail(d, RowError(idx, <<"HTTPException", "Polling center with this code already exists">>))
       ELSE RowOk(Insert(d, "polling_center", new))

import_polling_center_data(d, t) == RunImporter(ImportPollingCenterRow, d, t)


(***************************************************************************)
(* Polling center result.                                                  *)
(***************************************************************************)
PollingResultRequired ==
    {"polling_center_code", "candidate_name", "constituency_number",
     "election_year", "votes_received"}

validate_polling_result_csv(t) ==
    LET Check(row, row_num) ==
            RequiredChecks(row, row_num, PollingResultRequired)
            \o IntCheck(t, row, row_num, "votes_received", 0, -1,
                        <<"Votes must be non-negative">>,
                        <<"Votes must be a valid integer">>)
        Escapes(row) == IntEscapes(t, row, "votes_received")
    IN RunValidator(t, PollingResultRequired, Check, Escapes)

\* PollingCenterResultCreate(...): votes_received >= 0.
PollingResultCreateValid(e) == e.votes_received >= 0
\* CRUDPollingCenterResult.create: 400 when the result exists.
PollingResultCreateConflict(d, e) ==
    First(d.polling_result,
          LAMBDA x : /\ x.polling_center_id = e.polling_center_id
                     /\ x.candidate_id = e.candidate_id
                     /\ x.election_year = e.election_year) # 0

\* Variant: the update also takes is_valid and remarks from the row.
ImportPollingResultRowOverwrites(d, row, idx) ==
    LET center_code == PyStr(row["polling_center_code"])
        polling_center == First(d.polling_center, LAMBDA x : x.code = center_code)
        constituency_number == PyStr(row["constituency_number"])
        constituency == First(d.constituency, LAMBDA x : x.number = constituency_number)
        candidate_name == PyStr(row["candidate_name"])
        year == PyInt(row["election_year"])
        candidate == First(d.candidate,
                           LAMBDA x : /\ x.full_name = candidate_name
                                      /\ x.constituency_id = constituency
                                      /\ x.election_year = year.v)
        existing == First(d.polling_result,
                          LAMBDA x : /\ x.polling_center_id = polling_center
                                     /\ x.candidate_id = candidate
                                     /\ x.election_year = year.v)
        votes == PyInt(row["votes_received"])
        new == [polling_center_id |-> polling_center, candidate_id |-> candidate,
                election_year |-> year.v, votes_received |-> votes.v,
                vote_percentage |-> None,
                is_valid |-> BoolOr(row, "is_valid", TRUE),
                remarks |-> OptStr(row, "remarks")]
    IN IF polling_center = 0
       THEN RowFail(d, RowError(idx, <<"Polling center not found", center_code>>))
       ELSE IF constituency = 0
       THEN RowFail(d, RowError(idx, <<"Constituency not found", constituency_number>>))
       ELSE IF year.exc # "" THEN RowFail(d, RowError(idx, <<year.exc>>))
       ELSE IF candidate = 0
       THEN RowFail(d, RowError(idx, <<"Candidate not found", candidate_name,
                                       constituency_number, ToString(year.v)>>))
       ELSE IF votes.exc # "" THEN RowFail(d, RowError(idx, <<votes.exc>>))
       ELSE IF existing # 0
       THEN RowOk(Update(d, "polling_result", existing,
                         [votes_received |-> votes.v, vote_percentage |-> None,
                          is_valid |-> new.is_valid, remarks |-> new.remarks]))
       ELSE IF ~PollingResultCreateValid(new)
       THEN RowFail(d, RowError(idx, <<"ValidationError">>))
       ELSE IF PollingResultCreateConflict(d, new)
       THEN RowFail(d, RowError(idx, <<"HTTPException", "Result already exists for this polling center and candidate">>))
       ELSE RowOk(Insert(d, "polling_result", new))

ImportPollingResultRow(d, row, idx) ==
    LET center_code == PyStr(row["polling_center_code"])
        polling_center == First(d.polling_center, LAMBDA x : x.code = center_code)
        constituency_number == PyStr(row["constituency_number"])
        constituency == First(d.constituency, LAMBDA x : x.number = constituency_number)
        candidate_name == PyStr(row["candidate_name"])
        year == PyInt(row["election_year"])
        candidate == First(d.candidate,
                           LAMBDA x : /\ x.full_name = candidate_name
                                      /\ x.constituency_id = constituency
                                      /\ x.election_year = year.v)
        existing == First(d.polling_result,
                          LAMBDA x : /\ x.polling_center_id = polling_center
                                     /\ x.candidate_id = candidate
                                     /\ x.election_year = year.v)
        votes == PyInt(row["votes_received"])
        new == [polling_center_id |-> polling_center, candidate_id |-> candidate,
                election_year |-> year.v, votes_received |-> votes.v,
                vote_percentage |-> None,
                is_valid |-> BoolOr(row, "is_valid", TRUE),
                remarks |-> OptStr(row, "remarks")]
    IN IF polling_center = 0
       THEN RowFail(d, RowError(idx, <<"Polling center not found", center_code>>))
       ELSE IF constituency = 0
       THEN RowFail(d, RowError(idx, <<"Constituency not found", constituency_number>>))
       ELSE IF year.exc # "" THEN RowFail(d, RowError(idx, <<year.exc>>))
       ELSE IF candidate = 0
       THEN RowFail(d, RowError(idx, <<"Candidate not found", candidate_name,
                                       constituency_number, ToString(year.v)>>))
       ELSE IF votes.exc # "" THEN RowFail(d, RowError(idx, <<votes.exc>>))
       ELSE IF existing # 0
       THEN RowOk(Update(d, "polling_result", existing,
                         [votes_received |-> votes.v, vote_percentage |-> None]))
       ELSE IF ~PollingResultCreateValid(new)
       THEN RowFail(d, RowError(idx, <<"ValidationError">>))
       ELSE IF PollingResultCreateConflict(d, new)
       THEN RowFail(d, RowError(idx, <<"HTTPException", "Result already exists for this polling center and candidate">>))
       ELSE RowOk(Insert(d, "polling_result", new))

import_polling_result_data(d, t) == RunImporter(ImportPollingResultRow, d, t)

(***************************************************************************)
(* Voter demographics.                                                     *)
(***************************************************************************)
DemographicsRequired == {"constituency_number", "election_year", "total_voters"}
GenderFields == <<"male_voters", "female_voters", "other_voters">>
AgeFields ==
    <<"age_18_25", "age_26_35", "age_36_45", "age_46_55", "age_56_65", "age_66_plus">>

validate_voter_demographics_csv(t) ==
    LET NonNeg(row, row_num, col) ==
            IntCheck(t, row, row_num, col, 0, -1,
                     <<"must be non-negative", col>>, <<"must be a valid integer", col>>)
        Check(row, row_num) ==
            RequiredChecks(row, row_num, DemographicsRequired)
            \o NonNeg(row, row_num, "total_voters")
            \o NonNeg(row, row_num, "male_voters")
            \o NonNeg(row, row_num, "female_voters")
            \o NonNeg(row, row_num, "other_voters")
        Escapes(row) ==
            \E col \in {"total_voters", "male_voters", "female_voters", "other_voters"} :
                IntEscapes(t, row, col)
    IN RunValidator(t, DemographicsRequired, Check, Escapes)

\* "int(row[col]) if col in row and pd.notna(row[col]) else 0"
IntOr0(row, col) ==
    IF Has(row, col) /\ NotNa(row[col]) THEN PyInt(row[col]) ELSE Ok(0)

\* VoterDemographicsCreate(...): every count >= 0.  The field validator of
\* total_voters runs before male_voters, female_voters and other_voters are
\* validated, reads them as 0, and never rejects.
DemographicsCreateValid(e) ==
    /\ e.total_voters >= 0
    /\ \A i \in 1..Len(GenderFields) : e[GenderFields[i]] >= 0
    /\ \A i \in 1..Len(AgeFields) : e[AgeFields[i]] >= 0
\* CRUDVoterDemographics.create: 400 when (constituency_id, election_year) exists.
DemographicsCreateConflict(d, e) ==
    First(d.voter_demographics,
          LAMBDA x : /\ x.constituency_id = e.constituency_id
                     /\ x.election_year = e.election_year) # 0

\* A variant whose update path applies the row without the gender-total check.
ImportDemographicsRowUpdatesUnchecked(d, row, idx) ==
    LET constituency_number == PyStr(row["constituency_number"])
        constituency == First(d.constituency, LAMBDA x : x.number = constituency_number)
        year == PyInt(row["election_year"])
        existing == First(d.voter_demographics,
                          LAMBDA x : /\ x.constituency_id = constituency
                                     /\ x.election_year = year.v)
        total == PyInt(row["total_voters"])
        g == [i \in 1..3 |-> IntOr0(row, GenderFields[i])]
        a == [i \in 1..6 |-> IntOr0(row, AgeFields[i])]
        exc == FirstExc(<<year, total>> \o g \o a)
        upd == [total_voters |-> total.v,
                male_voters |-> g[1].v, female_voters |-> g[2].v,
                other_voters |-> g[3].v,
                age_18_25 |-> a[1].v, age_26_35 |-> a[2].v, age_36_45 |-> a[3].v,
                age_46_55 |-> a[4].v, age_56_65 |-> a[5].v, age_66_plus |-> a[6].v,
                source |-> OptStr(row, "source")]
        new == [f \in DOMAIN upd \cup {"constituency_id", "election_year"} |->
                  CASE f = "constituency_id" -> constituency
                    [] f = "election_year" -> year.v
                    [] OTHER -> upd[f]]
        gender_total == g[1].v + g[2].v + g[3].v
        exceeds == RowError(idx, <<"Sum of gender voters exceeds total voters",
                                   ToString(gender_total), ToString(total.v)>>)
    IN IF constituency = 0
       THEN RowFail(d, RowError(idx, <<"Constituency not found", constituency_number>>))
       ELSE IF exc # "" THEN RowFail(d, RowError(idx, <<exc>>))
       ELSE IF existing # 0
       THEN RowOk(Update(d, "voter_demographics", existing, upd))
       ELSE IF ~DemographicsCreateValid(new)
       THEN RowFail(d, RowError(idx, <<"ValidationError">>))
       ELSE IF gender_total > total.v THEN RowFail(d, exceeds)
       ELSE IF DemographicsCreateConflict(d, new)
       THEN RowFail(d, RowError(idx, <<"HTTPException", "Voter demographics already exists for this constituency and election year">>))
       ELSE RowOk(Insert(d, "voter_demographics", new))

ImportDemographicsRow(d, row, idx) ==
    LET constituency_number == PyStr(row["constituency_number"])
        constituency == First(d.constituency, LAMBDA x : x.number = constituency_number)
        year == PyInt(row["election_year"])
        existing == First(d.voter_demographics,
                          LAMBDA x : /\ x.constituency_id = constituency
                                     /\ x.election_year = year.v)
        total == PyInt(row["total_voters"])
        g == [i \in 1..3 |-> IntOr0(row, GenderFields[i])]
        a == [i \in 1..6 |-> IntOr0(row, AgeFields[i])]
        exc == FirstExc(<<year, total>> \o g \o a)
        upd == [total_voters |-> total.v,
                male_voters |-> g[1].v, female_voters |-> g[2].v,
                other_voters |-> g[3].v,
                age_18_25 |-> a[1].v, age_26_35 |-> a[2].v, age_36_45 |-> a[3].v,
                age_46_55 |-> a[4].v, age_56_65 |-> a[5].v, age_66_plus |-> a[6].v,
                source |-> OptStr(row, "source")]
        new == [f \in DOMAIN upd \cup {"constituency_id", "election_year"} |->
                  CASE f = "constituency_id" -> constituency
                    [] f = "election_year" -> year.v
                    [] OTHER -> upd[f]]
        gender_total == g[1].v + g[2].v + g[3].v
        exceeds == RowError(idx, <<"Sum of gender voters exceeds total voters",
                                   ToString(gender_total), ToString(total.v)>>)
    IN IF constituency = 0
       THEN RowFail(d, RowError(idx, <<"Constituency not found", constituency_number>>))
       ELSE IF exc # "" THEN RowFail(d, RowError(idx, <<exc>>))
       ELSE IF existing # 0
       THEN IF gender_total > total.v THEN RowFail(d, exceeds)
            ELSE RowOk(Update(d, "voter_demographics", existing, upd))
       ELSE IF ~DemographicsCreateValid(new)
       THEN RowFail(d, RowError(idx, <<"ValidationError">>))
       ELSE IF gender_total > total.v THEN RowFail(d, exceeds)
       ELSE IF DemographicsCreateConflict(d, new)
       THEN RowFail(d, RowError(idx, <<"HTTPException", "Voter demographics already exists for this constituency and election year">>))
       ELSE RowOk(Insert(d, "voter_demographics", new))

import_voter_demographics_data(d, t) == RunImporter(ImportDemographicsRow, d, t)

(***************************************************************************)
(* Constituency result.                                                    *)
(***************************************************************************)
ConstituencyResultRequired ==
    {"constituency_number", "election_year", "total_votes", "valid_votes",
     "rejected_votes", "turnout_percentage"}

validate_constituency_result_csv(t) ==
    LET Totals(row, row_num) ==
            LET total == PyInt(row["total_votes"])
                valid == PyInt(row["valid_votes"])
                rejected == PyInt(row["rejected_votes"])
                exc == FirstExc(<<total, valid, rejected>>)
                cols == {"total_votes", "valid_votes", "rejected_votes"}
            IN IF exc = "ValueError"
               THEN <<[row |-> row_num, column |-> cols,
                       error |-> <<"Vote counts must be valid integers">>]>>
               ELSE IF exc = "" /\ valid.v + rejected.v # total.v
               THEN <<[row |-> row_num, column |-> cols,
                       error |-> <<"Valid votes + Rejected votes must equal Total votes",
                                   ToString(valid.v), ToString(rejected.v),
                                   ToString(total.v)>>]>>
               ELSE <<>>
        Check(row, row_num) ==
            RequiredChecks(row, row_num, ConstituencyResultRequired)
            \o Totals(row, row_num)
            \o FloatCheck(t, row, row_num, "turnout_percentage", 0, 100,
                          <<"Turnout percentage must be between 0 and 100">>,
                          <<"Turnout percentage must be a valid number">>)
        Escapes(row) ==
            FirstExc(<<PyInt(row["total_votes"]), PyInt(row["valid_votes"]),
                       PyInt(row["rejected_votes"])>>) \notin {"", "ValueError"}
    IN RunValidator(t, ConstituencyResultRequired, Check, Escapes)

\* ConstituencyResultCreate(...): counts >= 0, percentages in [0, 100].  The
\* field validator of total_votes runs before valid_votes and rejected_votes
\* are validated, reads them as 0, and rejects every total_votes other than 0.
ConstituencyResultCreateValid(e) ==
    /\ e.total_votes >= 0
    /\ 0 + 0 = e.total_votes
    /\ e.valid_votes >= 0 /\ e.rejected_votes >= 0
    /\ FloatInRange(e.turnout_percentage, 0, 100)
    /\ e.margin_votes = None \/ Val(e.margin_votes) >= 0
    /\ e.margin_percentage = None \/ FloatInRange(Val(e.margin_percentage), 0, 100)
\* CRUDConstituencyResult.create: 400 when the result exists.
ConstituencyResultCreateConflict(d, e) ==
    First(d.constituency_result,
          LAMBDA x : /\ x.constituency_id = e.constituency_id
                     /\ x.election_year = e.election_year
                     /\ x.election_type = e.election_type) # 0

\* A variant that looks the winning candidate up by name alone.
ImportConstituencyResultRowByNameOnly(d, row, idx) ==
    LET constituency_number == PyStr(row["constituency_number"])
        constituency == First(d.constituency, LAMBDA x : x.number = constituency_number)
        year == PyInt(row["election_year"])
        \* str(row.get("election_type", "National")).strip()
        election_type ==
            IF Has(row, "election_type") THEN PyStr(row["election_type"]) ELSE "National"
        named == Has(row, "winning_candidate_name") /\ NotNa(row["winning_candidate_name"])
        candidate_name == PyStr(row["winning_candidate_name"])
        winning_candidate ==
            First(d.candidate, LAMBDA x : x.full_name = candidate_name)
        party_named == Has(row, "winning_party_name") /\ NotNa(row["winning_party_name"])
        party_name == PyStr(row["winning_party_name"])
        winning_party == First(d.party, LAMBDA x : x.name = party_name)
        existing == First(d.constituency_result,
                          LAMBDA x : /\ x.constituency_id = constituency
                                     /\ x.election_year = year.v
                                     /\ x.election_type = election_type)
        total == PyInt(row["total_votes"])
        valid == PyInt(row["valid_votes"])
        rejected == PyInt(row["rejected_votes"])
        turnout == PyFloat(row["turnout_percentage"])
        mv == OptInt(row, "margin_votes")
        mp == OptFloat(row, "margin_percentage")
        exc == FirstExc(<<total, valid, rejected, turnout, mv, mp>>)
        upd == [total_votes |-> total.v, valid_votes |-> valid.v,
                rejected_votes |-> rejected.v,
                turnout_percentage |-> AsFloat(turnout.v),
                winning_candidate_id |-> IF named THEN Some(winning_candidate) ELSE None,
                winning_party_id |-> IF party_named THEN Some(winning_party) ELSE None,
                margin_votes |-> mv.v, margin_percentage |-> OptAsFloat(mp),
                is_official |-> BoolOr(row, "is_official", FALSE)]
        new == [f \in DOMAIN upd \cup {"constituency_id", "election_year", "election_type"} |->
                  CASE f = "constituency_id" -> constituency
                    [] f = "election_year" -> year.v
                    [] f = "election_type" -> election_type
                    [] OTHER -> upd[f]]
        mismatch == RowError(idx, <<"Valid votes + Rejected votes must equal Total votes",
                                    ToString(valid.v), ToString(rejected.v),
                                    ToString(total.v)>>)
    IN IF constituency = 0
       THEN RowFail(d, RowError(idx, <<"Constituency not found", constituency_number>>))
       ELSE IF year.exc # "" THEN RowFail(d, RowError(idx, <<year.exc>>))
       ELSE IF named /\ winning_candidate = 0
       THEN RowFail(d, RowError(idx, <<"Winning candidate not found", candidate_name>>))
       ELSE IF party_named /\ winning_party = 0
       THEN RowFail(d, RowError(idx, <<"Winning party not found", party_name>>))
       ELSE IF exc # "" THEN RowFail(d, RowError(idx, <<exc>>))
       ELSE IF existing # 0
       THEN IF valid.v + rejected.v # total.v THEN RowFail(d, mismatch)
            ELSE RowOk(Update(d, "constituency_result", existing, upd))
       ELSE IF ~ConstituencyResultCreateValid(new)
       THEN RowFail(d, RowError(idx, <<"ValidationError">>))
       ELSE IF valid.v + rejected.v # total.v THEN RowFail(d, mismatch)
       ELSE IF ConstituencyResultCreateConflict(d, new)
       THEN RowFail(d, RowError(idx, <<"HTTPException", "Result already exists for this constituency and election year">>))
       ELSE RowOk(Insert(d, "constituency_result", new))

ImportConstituencyResultRow(d, row, idx) ==
    LET constituency_number == PyStr(row["constituency_number"])
        constituency == First(d.constituency, LAMBDA x : x.number = constituency_number)
        year == PyInt(row["election_year"])
        \* str(row.get("election_type", "National")).strip()
        election_type ==
            IF Has(row, "election_type") THEN PyStr(row["election_type"]) ELSE "National"
        named == Has(row, "winning_candidate_name") /\ NotNa(row["winning_candidate_name"])
        candidate_name == PyStr(row["winning_candidate_name"])
        winning_candidate ==
            First(d.candidate,
                  LAMBDA x : /\ x.full_name = candidate_name
                             /\ x.constituency_id = constituency
                             /\ x.election_year = year.v)
        party_named == Has(row, "winning_party_name") /\ NotNa(row["winning_party_name"])
        party_name == PyStr(row["winning_party_name"])
        winning_party == First(d.party, LAMBDA x : x.name = party_name)
        existing == First(d.constituency_result,
                          LAMBDA x : /\ x.constituency_id = constituency
                                     /\ x.election_year = year.v
                                     /\ x.election_type = election_type)
        total == PyInt(row["total_votes"])
        valid == PyInt(row["valid_votes"])
        rejected == PyInt(row["rejected_votes"])
        turnout == PyFloat(row["turnout_percentage"])
        mv == OptInt(row, "margin_votes")
        mp == OptFloat(row, "margin_percentage")
        exc == FirstExc(<<total, valid, rejected, turnout, mv, mp>>)
        upd == [total_votes |-> total.v, valid_votes |-> valid.v,
                rejected_votes |-> rejected.v,
                turnout_percentage |-> AsFloat(turnout.v),
                winning_candidate_id |-> IF named THEN Some(winning_candidate) ELSE None,
                winning_party_id |-> IF party_named THEN Some(winning_party) ELSE None,
                margin_votes |-> mv.v, margin_percentage |-> OptAsFloat(mp),
                is_official |-> BoolOr(row, "is_official", FALSE)]
        new == [f \in DOMAIN upd \cup {"constituency_id", "election_year", "election_type"} |->
                  CASE f = "constituency_id" -> constituency
                    [] f = "election_year" -> year.v
                    [] f = "election_type" -> election_type
                    [] OTHER -> upd[f]]
        mismatch == RowError(idx, <<"Valid votes + Rejected votes must equal Total votes",
                                    ToString(valid.v), ToString(rejected.v),
                                    ToString(total.v)>>)
    IN IF constituency = 0
       THEN RowFail(d, RowError(idx, <<"Constituency not found", constituency_number>>))
       ELSE IF year.exc # "" THEN RowFail(d, RowError(idx, <<year.exc>>))
       ELSE IF named /\ winning_candidate = 0
       THEN RowFail(d, RowError(idx, <<"Winning candidate not found", candidate_name>>))
       ELSE IF party_named /\ winning_party = 0
       THEN RowFail(d, RowError(idx, <<"Winning party not found", party_name>>))
       ELSE IF exc # "" THEN RowFail(d, RowError(idx, <<exc>>))
       ELSE IF existing # 0
       THEN IF valid.v + rejected.v # total.v THEN RowFail(d, mismatch)
            ELSE RowOk(Update(d, "constituency_result", existing, upd))
       ELSE IF ~ConstituencyResultCreateValid(new)
       THEN RowFail(d, RowError(idx, <<"ValidationError">>))
       ELSE IF valid.v + rejected.v # total.v THEN RowFail(d, mismatch)
       ELSE IF ConstituencyResultCreateConflict(d, new)
       THEN RowFail(d, RowError(idx, <<"HTTPException", "Result already exists for this constituency and election year">>))
       ELSE RowOk(Insert(d, "constituency_result", new))

import_constituency_result_data(d, t) == RunImporter(ImportConstituencyResultRow, d, t)


(***************************************************************************)
(* The two endpoints.                                                      *)
(***************************************************************************)
GeoKinds == {"division", "district", "constituency"}
BulkKinds ==
    {"candidate", "party", "polling_center", "polling_result",
     "voter_demographics", "constituency_result"}

\* import_handlers[import_type][0], and the validators import_csv names.
Validate(kind, t) ==
    CASE kind = "division" -> validate_division_csv(t)
      [] kind = "district" -> validate_district_csv(t)
      [] kind = "constituency" -> validate_constituency_csv(t)
      [] kind = "candidate" -> validate_candidate_csv(t)
      [] kind = "party" -> validate_party_csv(t)
      [] kind = "polling_center" -> validate_polling_center_csv(t)
      [] kind = "polling_result" -> validate_polling_result_csv(t)
      [] kind = "voter_demographics" -> validate_voter_demographics_csv(t)
      [] kind = "constituency_result" -> validate_constituency_result_csv(t)

\* import_handlers[import_type][1], and the importers import_csv names.
Import(kind, d, t) ==
    CASE kind = "division" -> import_division_data(d, t)
      [] kind = "district" -> import_district_data(d, t)
      [] kind = "constituency" -> import_constituency_data(d, t)
      [] kind = "candidate" -> import_candidate_data(d, t)
      [] kind = "party" -> import_party_data(d, t)
      [] kind = "polling_center" -> import_polling_center_data(d, t)
      [] kind = "polling_result" -> import_polling_result_data(d, t)
      [] kind = "voter_demographics" -> import_voter_demographics_data(d, t)
      [] kind = "constituency_result" -> import_constituency_result_data(d, t)

\* file.filename.endswith(".csv")
FileNames == {"data.csv", "DATA.CSV", "data.txt"}
EndsWithCsv(name) == name = "data.csv"

\* df.head(10)
PreviewRows == 10
Head10(rows) ==
    SubSeq(rows, 1, IF Len(rows) < PreviewRows THEN Len(rows) ELSE PreviewRows)

\* The dry-run answer of both endpoints.
Preview(t, errors) ==
    [total_rows |-> Len(t.rows),
     successful_rows |-> Len(t.rows) - Len(errors),
     failed_rows |-> Len(errors),
     errors |-> errors,
     preview_data |-> Head10(t.rows)]

NoReport ==
    [total_rows |-> 0, successful_rows |-> 0, failed_rows |-> 0, errors |-> <<>>]
NoDetail == [text |-> <<>>, errors |-> <<>>]

\* ImportLog(import_type=..., file_name=..., ..., status=...)
ImportLog(import_type, file, total, successful, failed, errors, user, status) ==
    [import_type |-> import_type, file_name |-> file.name,
     total_rows |-> total, successful_rows |-> successful, failed_rows |-> failed,
     errors |-> errors, user_id |-> user, status |-> status]

\* What the try block of an endpoint does: it returns or raises, and on the
\* way it may have run the importer and added an audit record.
\*   exc: "" or the exception's class; exctext: str(e); excerrors: the error
\*   list an HTTPException carries in its detail.
Returned(d, lg, body, validated, imported, attempted) ==
    [db |-> d, logs |-> lg, exc |-> "", exctext |-> <<>>, excerrors |-> <<>>,
     body |-> body, validated |-> validated, imported |-> imported,
     attempted |-> attempted]
Raised(d, lg, exc, text, errors, validated) ==
    [db |-> d, logs |-> lg, exc |-> exc, exctext |-> text, excerrors |-> errors,
     body |-> NoReport, validated |-> validated, imported |-> FALSE,
     attempted |-> <<>>]

\* Variant: writing the audit record of an import marks the records written
\* before it as superseded.
BulkImportedSupersedes(lg, import_type, file, user, r) ==
    Returned(r.db,
             Append([i \in DOMAIN lg |-> [lg[i] EXCEPT !.status = "superseded"]],
                    ImportLog(import_type, file, r.report.total_rows,
                              r.report.successful_rows, r.report.failed_rows,
                              r.report.errors, user, "completed")),
             r.report, TRUE, TRUE, r.attempted)

\* Variant: an import with failed rows is recorded as failed.
BulkImportedMarksFailures(lg, import_type, file, user, r) ==
    Returned(r.db,
             Append(lg, ImportLog(import_type, file, r.report.total_rows,
                                  r.report.successful_rows, r.report.failed_rows,
                                  r.report.errors, user,
                                  IF r.report.failed_rows > 0 THEN "failed"
                                  ELSE "completed")),
             r.report, TRUE, TRUE, r.attempted)

\* bulk_import after the importer has run: its audit record and its answer.
BulkImported(lg, import_type, file, user, r) ==
    Returned(r.db,
             Append(lg, ImportLog(import_type, file, r.report.total_rows,
                                  r.report.successful_rows, r.report.failed_rows,
                                  r.report.errors, user, "completed")),
             r.report, TRUE, TRUE, r.attempted)

\* bulk_import after the validator has run: an exception of the validator,
\* the dry-run answer, the audit record and the HTTPException of a rejected
\* table, or the importer.
BulkValidated(d, lg, import_type, file, dry_run, user, v) ==
    IF v.raised # "" THEN Raised(d, lg, v.raised, <<v.raised>>, <<>>, TRUE)
    ELSE IF dry_run THEN Returned(d, lg, Preview(file.table, v.errors), TRUE, FALSE, <<>>)
    ELSE IF v.errors # <<>>
    THEN Raised(d,
                Append(lg, ImportLog(import_type, file, Len(file.table.rows), 0,
                                     Len(file.table.rows), v.errors, user, "failed")),
                "HTTPException", <<"400", "{'errors': [...]}">>, v.errors, TRUE)
    ELSE BulkImported(lg, import_type, file, user, Import(import_type, d, file.table))

\* bulk_import, the try block: pd.read_csv, then the rest.
BulkTry(d, lg, import_type, file, dry_run, user) ==
    IF file.parse # "ok" THEN Raised(d, lg, file.parse, <<file.parse>>, <<>>, FALSE)
    ELSE BulkValidated(d, lg, import_type, file, dry_run, user,
                       Validate(import_type, file.table))

\* The answer of a call and what the call did.
Answer(b, status, kind, detail) ==
    [db |-> b.db, logs |-> b.logs, status |-> status, kind |-> kind,
     report |-> b.body, detail |-> detail, validated |-> b.validated,
     imported |-> b.imported, attempted |-> b.attempted]
Rejected(d, lg, text) ==
    [db |-> d, logs |-> lg, status |-> 400, kind |-> "error", report |-> NoReport,
     detail |-> [text |-> text, errors |-> <<>>], validated |-> FALSE,
     imported |-> FALSE, attempted |-> <<>>]

\* Variant: the last except clause answers 500 without an audit record.
BulkExceptWithoutRecord(b, import_type, file, dry_run, user) ==
    IF b.exc = ""
    THEN Answer(b, 200, IF dry_run THEN "preview" ELSE "report", NoDetail)
    ELSE IF b.exc = "EmptyDataError"
    THEN Answer(b, 400, "error", [text |-> <<"CSV file is empty">>, errors |-> <<>>])
    ELSE IF b.exc = "ParserError"
    THEN Answer(b, 400, "error", [text |-> <<"Invalid CSV format">>, errors |-> <<>>])
    ELSE Answer(b, 500, "error",
                [text |-> <<"Error processing file">> \o b.exctext, errors |-> <<>>])

\* bulk_import, the except clauses in their order: EmptyDataError,
\* ParserError, then "except Exception", which every other exception
\* reaches, the HTTPException of a rejected table included: it writes an
\* audit record of zero counts and answers 500.
BulkExcept(b, import_type, file, dry_run, user) ==
    IF b.exc = ""
    THEN Answer(b, 200, IF dry_run THEN "preview" ELSE "report", NoDetail)
    ELSE IF b.exc = "EmptyDataError"
    THEN Answer(b, 400, "error", [text |-> <<"CSV file is empty">>, errors |-> <<>>])
    ELSE IF b.exc = "ParserError"
    THEN Answer(b, 400, "error", [text |-> <<"Invalid CSV format">>, errors |-> <<>>])
    ELSE Answer([b EXCEPT !.logs =
                    Append(@, ImportLog(import_type, file, 0, 0, 0,
                                        <<[error |-> b.exctext]>>, user, "failed"))],
                500, "error",
                [text |-> <<"Error processing file">> \o b.exctext, errors |-> <<>>])

\* Variant: the file name is not looked at.
BulkImportAnyFileName(d, lg, import_type, file, dry_run, user) ==
    IF import_type \notin BulkKinds
    THEN Rejected(d, lg, <<"Unsupported import type", import_type>>)
    ELSE BulkExcept(BulkTry(d, lg, import_type, file, dry_run, user),
                    import_type, file, dry_run, user)

bulk_import(d, lg, import_type, file, dry_run, user) ==
    IF import_type \notin BulkKinds
    THEN Rejected(d, lg, <<"Unsupported import type", import_type>>)
    ELSE IF ~EndsWithCsv(file.name) THEN Rejected(d, lg, <<"Only CSV files are allowed">>)
    ELSE BulkExcept(BulkTry(d, lg, import_type, file, dry_run, user),
                    import_type, file, dry_run, user)

\* import_csv after the importer has run.
CsvImported(lg, r) == Returned(r.db, lg, r.report, TRUE, TRUE, r.attempted)

\* import_csv after the validator has run; no audit record on any path.
CsvValidated(d, lg, import_type, file, dry_run, v) ==
    IF v.raised # "" THEN Raised(d, lg, v.raised, <<v.raised>>, <<>>, TRUE)
    ELSE IF dry_run THEN Returned(d, lg, Preview(file.table, v.errors), TRUE, FALSE, <<>>)
    ELSE IF v.errors # <<>>
    THEN Raised(d, lg, "HTTPException", <<"400", "{'errors': [...]}">>, v.errors, TRUE)
    ELSE CsvImported(lg, Import(import_type, d, file.table))

\* import_csv, the try block.
CsvTry(d, lg, import_type, file, dry_run) ==
    IF file.parse # "ok" THEN Raised(d, lg, file.parse, <<file.parse>>, <<>>, FALSE)
    ELSE CsvValidated(d, lg, import_type, file, dry_run, Validate(import_type, file.table))

\* import_csv, its single "except Exception" clause: 400 with str(e).
CsvExcept(b, dry_run) ==
    IF b.exc = ""
    THEN Answer(b, 200, IF dry_run THEN "preview" ELSE "report", NoDetail)
    ELSE Answer(b, 400, "error",
                [text |-> <<"Error processing CSV">> \o b.exctext, errors |-> <<>>])

import_csv(d, lg, import_type, file, dry_run) ==
    IF ~EndsWithCsv(file.name) THEN Rejected(d, lg, <<"Only CSV files are allowed">>)
    ELSE CsvExcept(CsvTry(d, lg, import_type, file, dry_run), dry_run)

\* limit: int = Query(100, ge=1, le=1000)
DefaultLimit == 100
\* The ids (positions) of the records a query selects: each filter applies
\* only when its parameter is given.
Matching(lg, import_type, status, user_id) ==
    {i \in 1..Len(lg) :
        /\ import_type \subseteq {lg[i].import_type}
        /\ status \subseteq {lg[i].status}
        /\ user_id \subseteq {lg[i].user_id}}
\* order_by(desc(created_at)): the ids of a set, latest first.
RECURSIVE LatestFirst(_)
LatestFirst(ids) ==
    IF ids = {} THEN <<>>
    ELSE LET m == CHOOSE i \in ids : \A j \in ids : j <= i
         IN <<m>> \o LatestFirst(ids \ {m})
\* get_import_logs: it reads and returns; the records stay as they are.
get_import_logs(lg, skip, limit, import_type, status, user_id) ==
    LET ids == LatestFirst(Matching(lg, import_type, status, user_id))
        page == SubSeq(ids, skip + 1,
                       IF Len(ids) < skip + limit THEN Len(ids) ELSE skip + limit)
    IN [total |-> Len(ids),
        logs |-> [k \in 1..Len(page) |-> lg[page[k]]],
        skip |-> skip, limit |-> limit]

(***************************************************************************)
(* Uploaded tables: rows drawn from a few sample rows per kind, under the  *)
(* full header, the header of the required columns only, and a header that *)
(* misses a required column.                                               *)
(***************************************************************************)
DivisionRows ==
    {[name |-> S("Dhaka"), code |-> S("DH"), bengali_name |-> S("DhakaBn"),
      total_population |-> I(50), total_voters |-> I(30)],
     [name |-> S("Khulna"), code |-> S("KH"), bengali_name |-> NaN,
      total_population |-> NaN, total_voters |-> NaN],
     [name |-> S("Dhaka"), code |-> S("DX"), bengali_name |-> NaN,
      total_population |-> NaN, total_voters |-> NaN],
     [name |-> S(Spaces), code |-> S("A"), bengali_name |-> NaN,
      total_population |-> NaN, total_voters |-> S("many")],
     [name |-> S("Sylhet"), code |-> NaN, bengali_name |-> NaN,
      total_population |-> NaN, total_voters |-> NaN]}

DistrictRows ==
    {[name |-> S("Dhaka"), code |-> S("D1"), division_name |-> S("Dhaka"),
      bengali_name |-> S("DhakaBn"), area_sq_km |-> I(300), total_voters |-> I(20)],
     [name |-> S("Savar"), code |-> S("D2"), division_name |-> S("Dhaka"),
      bengali_name |-> NaN, area_sq_km |-> NaN, total_voters |-> NaN],
     [name |-> S("Bogra"), code |-> S("D1"), division_name |-> S("Khulna"),
      bengali_name |-> NaN, area_sq_km |-> NaN, total_voters |-> NaN],
     [name |-> S("Gazipur"), code |-> S("A"), division_name |-> S("Dhaka"),
      bengali_name |-> NaN, area_sq_km |-> S("wide"), total_voters |-> NaN],
     [name |-> NaN, code |-> S("D5"), division_name |-> S("Dhaka"),
      bengali_name |-> NaN, area_sq_km |-> NaN, total_voters |-> NaN]}

ConstituencyRows ==
    {[name |-> S("Dhaka-1"), number |-> S("C1"), district_name |-> S("Dhaka"),
      division_name |-> S("Dhaka"), area_description |-> S("North"),
      total_voters |-> I(10), is_active |-> B(TRUE)],
     [name |-> S("Savar-1"), number |-> S("C2"), district_name |-> S("Savar"),
      division_name |-> S("Dhaka"), area_description |-> NaN,
      total_voters |-> NaN, is_active |-> B(TRUE)],
     [name |-> S("Savar-2"), number |-> S("C1"), district_name |-> S("Savar"),
      division_name |-> S("Dhaka"), area_description |-> NaN,
      total_voters |-> NaN, is_active |-> B(FALSE)],
     [name |-> S("A"), number |-> S("C4"), district_name |-> S("Bogra"),
      division_name |-> S("Dhaka"), area_description |-> NaN,
      total_voters |-> NaN, is_active |-> B(TRUE)],
     [name |-> S("Dhaka-5"), number |-> NaN, district_name |-> S("Dhaka"),
      division_name |-> S("Dhaka"), area_description |-> NaN,
      total_voters |-> NaN, is_active |-> B(TRUE)]}

PartyRows ==
    {[name |-> S("Awami"), acronym |-> S("AL"), symbol_name |-> S("Boat"),
      color_code |-> S("#006A4E"), is_registered |-> B(TRUE)],
     [name |-> S("BNP"), acronym |-> NaN, symbol_name |-> NaN,
      color_code |-> NaN, is_registered |-> B(FALSE)],
     [name |-> S("Jatiya"), acronym |-> S("JP"), symbol_name |-> S("Plough"),
      color_code |-> S("yellow"), is_registered |-> B(TRUE)],
     [name |-> S("Awami"), acronym |-> NaN, symbol_name |-> S("Sheaf"),
      color_code |-> S("green"), is_registered |-> NaN],
     [name |-> NaN, acronym |-> S("XX"), symbol_name |-> NaN,
      color_code |-> NaN, is_registered |-> B(TRUE)]}

CandidateRow(full_name, party, number, year, type, age) ==
    [full_name |-> full_name, party_name |-> party, constituency_number |-> number,
     election_year |-> year, election_type |-> type, bengali_name |-> NaN,
     age |-> age, education |-> S("MA"), profession |-> NaN,
     candidate_number |-> NaN, deposit_status |-> NaN, is_active |-> B(TRUE)]
CandidateRows ==
    {CandidateRow(S("Rahim"), S("Awami"), S("C1"), I(2024), S("National"), I(45)),
     CandidateRow(S("Karim"), S("BNP"), S("C1"), I(2024), S("National"), NaN),
     CandidateRow(S("Rahim"), S("BNP"), S("C1"), I(2024), S("Regional"), I(46)),
     CandidateRow(S("Salma"), S("Ghost"), S("C1"), I(2024), S("Local"), NaN),
     CandidateRow(S("Jamal"), S("Awami"), S("C9"), I(1960), S("National"), S("old")),
     CandidateRow(S("Nadia"), S("Awami"), S("C2"), Inf, S("National"), NaN),
     CandidateRow(S("Salma"), S("Awami"), S("C9"), I(2024), S("Local"), NaN)}

PollingCenterRow(code, name, number, lat, voters) ==
    [code |-> code, name |-> name, constituency_number |-> number,
     location |-> NaN, latitude |-> lat, longitude |-> F(90),
     total_voters |-> voters, is_active |-> B(TRUE)]
PollingCenterRows ==
    {PollingCenterRow(S("PC1"), S("School"), S("C1"), F(23), I(30)),
     PollingCenterRow(S("PC2"), S("College"), S("C2"), NaN, NaN),
     PollingCenterRow(S("PC1"), S("Hall"), S("C2"), I(24), I(-5)),
     PollingCenterRow(S("PC3"), S("Club"), S("C9"), F(23), I(-5)),
     PollingCenterRow(S("PC4"), NaN, S("C1"), F(95), S("few"))}

PollingResultRow(center, candidate, number, year, votes) ==
    [polling_center_code |-> center, candidate_name |-> candidate,
     constituency_number |-> number, election_year |-> year,
     votes_received |-> votes, is_valid |-> B(TRUE), remarks |-> NaN]
PollingResultRows ==
    {PollingResultRow(S("PC1"), S("Rahim"), S("C1"), I(2024), I(10)),
     PollingResultRow(S("PC1"), S("Karim"), S("C1"), I(2024), I(7)),
     [PollingResultRow(S("PC1"), S("Rahim"), S("C1"), I(2024), I(12))
        EXCEPT !.is_valid = B(FALSE), !.remarks = S("recount")],
     PollingResultRow(S("PC9"), S("Rahim"), S("C1"), I(2024), I(3)),
     PollingResultRow(S("PC1"), S("Ghost"), S("C1"), S("soon"), I(-1)),
     PollingResultRow(S("PC1"), S("Karim"), S("C1"), I(2024), Inf)}

DemographicsRow(number, year, total, male, female) ==
    [constituency_number |-> number, election_year |-> year, total_voters |-> total,
     male_voters |-> male, female_voters |-> female, other_voters |-> NaN,
     age_18_25 |-> I(2), age_26_35 |-> NaN, age_36_45 |-> NaN, age_46_55 |-> NaN,
     age_56_65 |-> NaN, age_66_plus |-> NaN, source |-> S("EC")]
DemographicsRows ==
    {DemographicsRow(S("C1"), I(2024), I(10), I(5), I(5)),
     DemographicsRow(S("C1"), I(2024), I(10), I(6), I(5)),
     DemographicsRow(S("C2"), I(2024), I(8), NaN, NaN),
     DemographicsRow(S("C9"), I(2024), I(8), I(4), I(4)),
     DemographicsRow(S("C1"), I(2024), I(-1), I(1), S("half"))}

ConstituencyResultRow(number, total, valid, rejected, candidate, party) ==
    [constituency_number |-> number, election_year |-> I(2024),
     total_votes |-> total, valid_votes |-> valid, rejected_votes |-> rejected,
     turnout_percentage |-> F(65), election_type |-> S("National"),
     winning_candidate_name |-> candidate, winning_party_name |-> party,
     margin_votes |-> NaN, margin_percentage |-> NaN, is_official |-> B(TRUE)]
ConstituencyResultRows ==
    {ConstituencyResultRow(S("C1"), I(0), I(0), I(0), NaN, NaN),
     ConstituencyResultRow(S("C1"), I(10), I(6), I(4), S("Rahim"), S("Awami")),
     ConstituencyResultRow(S("C2"), I(10), I(6), I(3), NaN, NaN),
     ConstituencyResultRow(S("C1"), I(0), I(0), I(0), S("Ghost"), NaN),
     ConstituencyResultRow(S("C9"), I(0), I(0), I(0), NaN, S("Ghost")),
     ConstituencyResultRow(S("C2"), I(0), I(0), I(0), S("Karim"), NaN)}


Kinds == GeoKinds \cup BulkKinds

SampleRows(kind) ==
    CASE kind = "division" -> DivisionRows
      [] kind = "district" -> DistrictRows
      [] kind = "constituency" -> ConstituencyRows
      [] kind = "party" -> PartyRows
      [] kind = "candidate" -> CandidateRows
      [] kind = "polling_center" -> PollingCenterRows
      [] kind = "polling_result" -> PollingResultRows
      [] kind = "voter_demographics" -> DemographicsRows
      [] kind = "constituency_result" -> ConstituencyResultRows

\* required_columns of each validator.
Required(kind) ==
    CASE kind = "division" -> {"name", "code"}
      [] kind = "district" -> {"name", "code", "division_name"}
      [] kind = "constituency" -> {"name", "number", "district_name", "division_name"}
      [] kind = "party" -> {"name"}
      [] kind = "candidate" -> CandidateRequired
      [] kind = "polling_center" -> PollingCenterRequired
      [] kind = "polling_result" -> PollingResultRequired
      [] kind = "voter_demographics" -> DemographicsRequired
      [] kind = "constituency_result" -> ConstituencyResultRequired

AllColumns(kind) == DOMAIN (CHOOSE r \in SampleRows(kind) : TRUE)
Headers(kind) ==
    {AllColumns(kind), Required(kind),
     AllColumns(kind) \ {CHOOSE c \in Required(kind) : TRUE}}

Project(row, cols) == [c \in cols |-> row[c]]
SeqsUpTo(set, n) == UNION {[1..k -> set] : k \in 0..n}
Table(cols, rows) == [cols |-> cols, rows |-> rows]
EmptyTable == Table({}, <<>>)

Tables(kind) ==
    UNION {{Table(cols, rows) :
              rows \in SeqsUpTo({Project(r, cols) : r \in SampleRows(kind)}, MaxRows)} :
           cols \in Headers(kind)}

\* An upload: its file name, what pd.read_csv makes of its content (a table,
\* EmptyDataError, ParserError, or another exception such as a
\* UnicodeDecodeError), and the table when there is one.
ParseFailures == {"EmptyDataError", "ParserError", "UnicodeDecodeError"}
\* Division files of one row more than MaxRows over three of the sample
\* rows, so that a code can occur next to another one, or three times.
DuplicateCodeTables ==
    {Table({"name", "code"}, rows) :
       rows \in [1..(MaxRows + 1) ->
                   {Project(r, {"name", "code"}) :
                      r \in {x \in DivisionRows :
                               x["name"] \in {S("Dhaka"), S("Khulna"), S("Sylhet")}
                               /\ x["code"] # S("DX")}}]}

Files(kind) ==
    {[name |-> "data.csv", parse |-> "ok", table |-> t] :
        t \in Tables(kind) \cup (IF kind = "division" THEN DuplicateCodeTables ELSE {})}
    \cup {[name |-> "data.csv", parse |-> p, table |-> EmptyTable] : p \in ParseFailures}
    \cup {[name |-> n, parse |-> "ok", table |-> EmptyTable] : n \in FileNames \ {"data.csv"}}

\* current_user.id
Users == {1}

(***************************************************************************)
(* Stores the pipeline itself produces, as starting points.                *)
(***************************************************************************)
Full(rows) == Table(DOMAIN rows[1], rows)
ByCode(rows, col, code) == CHOOSE r \in rows : r[col] = S(code)

SeedGeo ==
    LET d1 == import_division_data(EmptyDb,
                  Full(<<ByCode(DivisionRows, "code", "DH"),
                         ByCode(DivisionRows, "code", "KH")>>)).db
        d2 == import_district_data(d1,
                  Full(<<ByCode(DistrictRows, "name", "Dhaka"),
                         ByCode(DistrictRows, "name", "Savar")>>)).db
    IN import_constituency_data(d2,
           Full(<<ByCode(ConstituencyRows, "name", "Dhaka-1"),
                  ByCode(ConstituencyRows, "name", "Savar-1")>>)).db

SeedParty ==
    import_party_data(SeedGeo,
        Full(<<ByCode(PartyRows, "acronym", "AL"),
               ByCode(PartyRows, "name", "BNP")>>)).db

SeedRef ==
    LET d2 == import_candidate_data(SeedParty,
                  Full(<<CandidateRow(S("Rahim"), S("Awami"), S("C1"), I(2024), S("National"), I(45)),
                         CandidateRow(S("Karim"), S("BNP"), S("C1"), I(2024), S("National"), NaN),
                         CandidateRow(S("Karim"), S("BNP"), S("C2"), I(2019), S("National"), NaN)>>)).db
    IN import_polling_center_data(d2,
           Full(<<ByCode(PollingCenterRows, "name", "School"),
                  ByCode(PollingCenterRows, "name", "College")>>)).db

SeedFull ==
    LET d1 == import_polling_result_data(SeedRef,
                  Full(<<PollingResultRow(S("PC1"), S("Rahim"), S("C1"), I(2024), I(10))>>)).db
        d2 == import_voter_demographics_data(d1,
                  Full(<<DemographicsRow(S("C1"), I(2024), I(10), I(5), I(5))>>)).db
    IN import_constituency_result_data(d2,
           Full(<<ConstituencyResultRow(S("C1"), I(0), I(0), I(0), NaN, NaN),
                  ConstituencyResultRow(S("C1"), I(10), I(6), I(4), S("Rahim"), S("Awami"))>>)).db

Seeds == {EmptyDb, SeedGeo, SeedParty, SeedRef, SeedFull}

(***************************************************************************)
(* The state machine: one request against a store, then the same request   *)
(* once more.                                                              *)
(***************************************************************************)
NoCall == [op |-> "none"]
\* seen: the answer to the latest request when it was a read of the audit
\* records.
NoRead == [total |-> 0, logs |-> <<>>, skip |-> 0, limit |-> 0]

Init ==
    /\ db \in Seeds
    /\ logs = <<>>
    /\ last = NoCall
    /\ calls = 0
    /\ seen = NoRead

\* One request and everything it does.
Do(op, import_type, file, dry_run, user) ==
    \E a \in {IF op = "bulk_import"
              THEN bulk_import(db, logs, import_type, file, dry_run, user)
              ELSE import_csv(db, logs, import_type, file, dry_run)} :
       /\ db' = a.db
       /\ logs' = a.logs
       /\ calls' = calls + 1
       /\ seen' = NoRead
       /\ last' = [op |-> op, import_type |-> import_type, file |-> file,
                   dry_run |-> dry_run, user |-> user, pre |-> db, prelogs |-> logs,
                   status |-> a.status, kind |-> a.kind, report |-> a.report,
                   detail |-> a.detail, validated |-> a.validated,
                   imported |-> a.imported, attempted |-> a.attempted,
                   before |-> last]

\* POST /admin/import/bulk
BulkImport ==
    /\ calls = 0
    /\ \E import_type \in BulkKinds \cup {"division"} :
       \E file \in Files(import_type), dry_run \in BOOLEAN, user \in Users :
           Do("bulk_import", import_type, file, dry_run, user)

\* POST /geography/import/csv
ImportCsv ==
    /\ calls = 0
    /\ \E import_type \in GeoKinds :
       \E file \in Files(import_type), dry_run \in BOOLEAN, user \in Users :
           Do("import_csv", import_type, file, dry_run, user)

\* The same upload sent again.
Resubmit ==
    /\ calls = 1
    /\ Do(last.op, last.import_type, last.file, last.dry_run, last.user)

\* GET /admin/import-logs/
GetImportLogs ==
    /\ \E status \in {None, Some("failed")} :
          seen' = get_import_logs(logs, 0, DefaultLimit, None, status, None)
    /\ UNCHANGED <<db, logs, last, calls>>

Next == BulkImport \/ ImportCsv \/ Resubmit \/ GetImportLogs

Spec == Init /\ [][Next]_vars


(***************************************************************************)
(* Properties.                                                             *)
(***************************************************************************)
Called == last.op # "none"
\* The audit records the last call wrote.
NewLogs == SubSeq(logs, Len(last.prelogs) + 1, Len(logs))
\* A bulk_import call that reached CSV processing.
Processing ==
    /\ Called /\ last.op = "bulk_import"
    /\ last.import_type \in BulkKinds /\ EndsWithCsv(last.file.name)
\* What the validator makes of the last call's table.
Verdict == Validate(last.import_type, last.file.table)
\* The data rows the error entries of a report name (row = index + 2).
FailedRows(report) == {report.errors[i].row - 2 : i \in 1..Len(report.errors)}

\* C1: the report of every importer run counts every data row exactly once:
\* total_rows is the number of data rows and equals successful_rows +
\* failed_rows.
C1_EveryRowCountedOnce ==
    (Called /\ last.imported) =>
        /\ last.report.total_rows = Len(last.file.table.rows)
        /\ last.report.successful_rows >= 0
        /\ last.report.failed_rows >= 0
        /\ last.report.total_rows =
               last.report.successful_rows + last.report.failed_rows

\* C1 witness: an import in which a row succeeded and a row failed.
C1_MixedOutcome ==
    /\ Called /\ last.imported
    /\ last.report.successful_rows >= 1 /\ last.report.failed_rows >= 1

\* C2: every non-dry-run bulk_import that reaches CSV processing writes
\* exactly one ImportLog record.
C2_ExactlyOneImportLog ==
    (Processing /\ ~last.dry_run) => Len(NewLogs) = 1

\* C2 witness: a rejected table left two ImportLog records.
C2_TwoImportLogs ==
    /\ Processing /\ ~last.dry_run /\ last.validated
    /\ Len(NewLogs) = 2

\* C3: a table that lacks a required column makes the validator return
\* exactly one error, tagged row 0 and naming the missing columns, whatever
\* its rows hold; the importer is not invoked and the store is unchanged.
C3_MissingColumnIsOneRowZeroError ==
    (Called /\ last.validated
       /\ Required(last.import_type) \ last.file.table.cols # {}) =>
        /\ Verdict.raised = ""
        /\ Len(Verdict.errors) = 1
        /\ Verdict.errors[1].row = 0
        /\ Verdict.errors[1].column =
               Required(last.import_type) \ last.file.table.cols
        /\ ~last.imported
        /\ db = last.pre

\* C3 witness: a non-dry-run call whose table lacks a required column and
\* has two rows.
C3_MissingColumnUploaded ==
    /\ Called /\ last.validated /\ ~last.dry_run
    /\ Required(last.import_type) \ last.file.table.cols # {}
    /\ Len(last.file.table.rows) = 2

\* C4: a dry-run call on any table never invokes the importer, leaves the
\* store as it was and writes no ImportLog record.
C4_DryRunChangesNothing ==
    (Called /\ last.dry_run /\ last.file.parse = "ok") =>
        /\ ~last.imported
        /\ db = last.pre
        /\ logs = last.prelogs

\* C4 witness: a dry-run call on a table wrote an ImportLog record.
C4_DryRunWroteImportLog ==
    /\ Called /\ last.dry_run /\ last.file.parse = "ok"
    /\ Len(logs) > Len(last.prelogs)

\* C5: when an import reports every row successful, the same table imported
\* again reports every row successful, leaves the number of stored entities
\* unchanged and leaves every stored entity's content unchanged.
C5_ReimportIsIdempotent ==
    (calls = 2 /\ last.before.imported /\ last.before.report.failed_rows = 0) =>
        /\ last.imported
        /\ last.report.failed_rows = 0
        /\ last.report.successful_rows = last.report.total_rows
        /\ \A t \in DOMAIN db : Len(db[t]) = Len(last.pre[t])
        /\ db = last.pre

\* C5 witness: the second import of a table whose first import succeeded
\* for every row reports failed rows.
C5_ReimportFails ==
    /\ calls = 2 /\ last.before.imported
    /\ last.before.report.failed_rows = 0
    /\ last.report.failed_rows > 0


\* C6: a non-dry-run bulk_import whose validator returns errors does not run
\* the importer, writes one audit record with successful_rows = 0,
\* failed_rows = total_rows = the table's row count, the validator's error
\* list and status "failed", and fails with that same error list.
C6_RejectedTableRecordedOnce ==
    (Processing /\ ~last.dry_run /\ last.validated
       /\ Verdict.raised = "" /\ Verdict.errors # <<>>) =>
        /\ ~last.imported
        /\ NewLogs = <<ImportLog(last.import_type, last.file,
                                 Len(last.file.table.rows), 0,
                                 Len(last.file.table.rows), Verdict.errors,
                                 last.user, "failed")>>
        /\ last.status = 400
        /\ last.detail.errors = Verdict.errors

\* C6 witness: a rejected table answered with 500 and a second audit record
\* of zero counts.
C6_RejectedTableAnswered500 ==
    /\ Processing /\ ~last.dry_run /\ last.validated
    /\ Verdict.raised = "" /\ Verdict.errors # <<>>
    /\ last.status = 500
    /\ Len(NewLogs) = 2 /\ NewLogs[2].total_rows = 0

\* C7: a non-dry-run bulk_import whose validator returns no errors succeeds
\* whatever the rows' outcomes, and writes one audit record with status
\* "completed" and the counts and errors of the report it returns.
C7_CleanTableCompletes ==
    (Processing /\ ~last.dry_run /\ last.validated
       /\ Verdict.raised = "" /\ Verdict.errors = <<>>) =>
        /\ last.imported
        /\ last.status = 200 /\ last.kind = "report"
        /\ NewLogs = <<ImportLog(last.import_type, last.file,
                                 last.report.total_rows, last.report.successful_rows,
                                 last.report.failed_rows, last.report.errors,
                                 last.user, "completed")>>

\* C7 witness: a validator-clean table of which every row failed.
C7_CompletedWithAllRowsFailed ==
    /\ Processing /\ ~last.dry_run /\ last.imported
    /\ last.report.total_rows = 2 /\ last.report.failed_rows = 2

\* A bulk_import call that failed as a whole: pd.read_csv or the validator
\* raised.
Catastrophic == Processing /\ (last.file.parse # "ok" \/ Verdict.raised # "")
\* One audit record of zero counts with a single error, mirrored by a 500.
ZeroCountRecord ==
    /\ Len(NewLogs) = 1
    /\ NewLogs[1].total_rows = 0 /\ NewLogs[1].successful_rows = 0
    /\ NewLogs[1].failed_rows = 0 /\ NewLogs[1].status = "failed"
    /\ Len(NewLogs[1].errors) = 1
    /\ last.status = 500
    /\ last.detail.text = <<"Error processing file">> \o NewLogs[1].errors[1].error

RECURSIVE RowByRow(_, _, _, _, _)
RowByRow(kind, cols, d, rows, i) ==
    IF i > Len(rows) THEN d
    ELSE RowByRow(kind, cols, Import(kind, d, Table(cols, <<rows[i]>>)).db, rows, i + 1)

\* C9: an importer attempts every row in file order whatever the earlier
\* rows' outcomes, returns a report, removes nothing from the store, and
\* leaves the store as importing the rows one by one leaves it.
C9_RowsInOrderAndIndependent ==
    (Called /\ last.imported) =>
        /\ last.attempted = [i \in 1..Len(last.file.table.rows) |-> i - 1]
        /\ last.status = 200 /\ last.kind = "report"
        /\ \A t \in DOMAIN db : Len(db[t]) >= Len(last.pre[t])
        /\ db = RowByRow(last.import_type, last.file.table.cols, last.pre,
                         last.file.table.rows, 1)

\* C9 witness: the first row failed and the second row was persisted.
C9_SecondRowPersistedAfterFailure ==
    /\ Called /\ last.imported
    /\ Len(last.file.table.rows) = 2
    /\ FailedRows(last.report) = {0}
    /\ db # last.pre

\* Every row that fails, imported in its turn, leaves the store it found.
RECURSIVE FailedRowsChangeNothing(_, _, _, _, _)
FailedRowsChangeNothing(kind, cols, d, rows, i) ==
    IF i > Len(rows) THEN TRUE
    ELSE \E r \in {Import(kind, d, Table(cols, <<rows[i]>>))} :
            /\ r.report.failed_rows = 1 => r.db = d
            /\ FailedRowsChangeNothing(kind, cols, r.db, rows, i + 1)

\* C10: a row counted as failed changes nothing in the store: the store
\* after the row is the store before it, and an import of which every row
\* failed leaves the store as it was.
C10_FailedRowChangesNothing ==
    (Called /\ last.imported) =>
        /\ FailedRowsChangeNothing(last.import_type, last.file.table.cols,
                                   last.pre, last.file.table.rows, 1)
        /\ last.report.successful_rows = 0 => db = last.pre

\* C10 witness: a row that targets stored voter demographics failed its
\* gender-total check.
C10_UpdateOfStoredEntityFailed ==
    /\ Called /\ last.imported /\ last.import_type = "voter_demographics"
    /\ Len(last.pre.voter_demographics) >= 1
    /\ last.report.failed_rows >= 1
    /\ last.report.errors[1].error[1] = "Sum of gender voters exceeds total voters"

\* The error entries a report holds for a file line.
EntriesFor(report, row_num) ==
    {report.errors[k] : k \in {j \in 1..Len(report.errors) : report.errors[j].row = row_num}}
\* Whether a candidate row's party_name / constituency_number names a stored
\* party / constituency.
PartyResolves(d, row) ==
    First(d.party, LAMBDA x : x.name = PyStr(row["party_name"])) # 0
ConstituencyResolves(d, row) ==
    First(d.constituency, LAMBDA x : x.number = PyStr(row["constituency_number"])) # 0
\* A candidate row imported alone against the store the call started from.
CandidateAlone(row) ==
    Import("candidate", last.pre, Table(last.file.table.cols, <<row>>))
CandidateImported == Called /\ last.imported /\ last.import_type = "candidate"

\* C11 as stated: in a candidate import every row whose constituency_number
\* matches no stored constituency fails with "Constituency not found:
\* <number>" on that row, every row whose party_name matches no stored party
\* fails with "Party not found: <name>", and no candidate is created or
\* modified for such a row.
C11_UnresolvedReferenceNamed ==
    CandidateImported =>
        \A i \in 1..Len(last.file.table.rows) :
            LET row == last.file.table.rows[i] IN
            /\ ~ConstituencyResolves(last.pre, row) =>
                  /\ EntriesFor(last.report, i + 1) =
                        {RowError(i - 1, <<"Constituency not found",
                                           PyStr(row["constituency_number"])>>)}
                  /\ CandidateAlone(row).db = last.pre
            /\ ~PartyResolves(last.pre, row) =>
                  /\ EntriesFor(last.report, i + 1) =
                        {RowError(i - 1, <<"Party not found", PyStr(row["party_name"])>>)}
                  /\ CandidateAlone(row).db = last.pre

\* C11 amended: the party is looked up first. A row whose party_name matches
\* no stored party fails with "Party not found: <name>" whatever its
\* constituency_number; a row whose party is found and whose
\* constituency_number matches no stored constituency fails with
\* "Constituency not found: <number>". Either way the row is counted failed
\* and no candidate is created or modified for it.
C11_FirstUnresolvedReferenceNamed ==
    CandidateImported =>
        /\ \A i \in 1..Len(last.file.table.rows) :
              LET row == last.file.table.rows[i]
                  msg == IF ~PartyResolves(last.pre, row)
                         THEN <<"Party not found", PyStr(row["party_name"])>>
                         ELSE <<"Constituency not found", PyStr(row["constituency_number"])>>
              IN (~PartyResolves(last.pre, row) \/ ~ConstituencyResolves(last.pre, row)) =>
                    /\ EntriesFor(last.report, i + 1) = {RowError(i - 1, msg)}
                    /\ CandidateAlone(row).report.failed_rows = 1
                    /\ CandidateAlone(row).db = last.pre
        /\ (\A i \in 1..Len(last.file.table.rows) :
               \/ ~PartyResolves(last.pre, last.file.table.rows[i])
               \/ ~ConstituencyResolves(last.pre, last.file.table.rows[i])) =>
              /\ last.report.failed_rows = Len(last.file.table.rows)
              /\ db = last.pre

\* C11 witness: a candidate import against a store holding parties and
\* constituencies in which a row naming an unknown constituency failed next
\* to a row that was stored.
C11_UnknownConstituencyRowFailed ==
    /\ CandidateImported /\ Len(last.file.table.rows) = 2
    /\ \E i \in 1..2 :
          /\ PartyResolves(last.pre, last.file.table.rows[i])
          /\ ~ConstituencyResolves(last.pre, last.file.table.rows[i])
    /\ last.report.successful_rows = 1 /\ last.report.failed_rows = 1

\* C11 counterexample state: a row whose party and constituency are both
\* unknown.
C11_BothReferencesUnknown ==
    /\ CandidateImported
    /\ \E i \in 1..Len(last.file.table.rows) :
          /\ ~PartyResolves(last.pre, last.file.table.rows[i])
          /\ ~ConstituencyResolves(last.pre, last.file.table.rows[i])

\* valid_votes + rejected_votes = total_votes on every stored constituency
\* result.
TotalsAddUp(d) ==
    \A k \in 1..Len(d.constituency_result) :
        d.constituency_result[k].valid_votes + d.constituency_result[k].rejected_votes
            = d.constituency_result[k].total_votes
\* The three vote counts of a row are integers.
CountsAreInts(row) ==
    FirstExc(<<PyInt(row["total_votes"]), PyInt(row["valid_votes"]),
               PyInt(row["rejected_votes"])>>) = ""
RowTotalsMatch(row) ==
    /\ CountsAreInts(row)
    /\ PyInt(row["valid_votes"]).v + PyInt(row["rejected_votes"]).v
           = PyInt(row["total_votes"]).v
\* The row names a stored constituency and, when it names a winner, a
\* candidate of that constituency and year and a stored party.
ResultRefsResolve(d, row) ==
    LET constituency ==
            First(d.constituency,
                  LAMBDA x : x.number = PyStr(row["constituency_number"]))
        named == Has(row, "winning_candidate_name") /\ NotNa(row["winning_candidate_name"])
        party_named == Has(row, "winning_party_name") /\ NotNa(row["winning_party_name"])
    IN /\ constituency # 0
       /\ PyInt(row["election_year"]).exc = ""
       /\ named =>
             First(d.candidate,
                   LAMBDA x : /\ x.full_name = PyStr(row["winning_candidate_name"])
                              /\ x.constituency_id = constituency
                              /\ x.election_year = PyInt(row["election_year"]).v) # 0
       /\ party_named =>
             First(d.party, LAMBDA x : x.name = PyStr(row["winning_party_name"])) # 0
ResultUploaded ==
    /\ Called /\ last.validated /\ last.import_type = "constituency_result"
    /\ ConstituencyResultRequired \subseteq last.file.table.cols

\* C12: valid_votes + rejected_votes = total_votes holds on every stored
\* constituency result after any sequence of constituency-result imports; a
\* row whose totals do not match is reported with the arithmetic-mismatch
\* error and is neither inserted nor applied as an update, while a row whose
\* totals match (and whose references resolve) succeeds.
C12_TotalsPreservedAndMatchingRowsSucceed ==
    /\ TotalsAddUp(db)
    /\ ResultUploaded =>
          \A i \in 1..Len(last.file.table.rows) :
              LET row == last.file.table.rows[i] IN
              /\ (CountsAreInts(row) /\ ~RowTotalsMatch(row)) =>
                    /\ ~last.imported
                    /\ db = last.pre
                    /\ \E k \in 1..Len(Verdict.errors) :
                          /\ Verdict.errors[k].row = i + 1
                          /\ Verdict.errors[k].error[1] =
                                "Valid votes + Rejected votes must equal Total votes"
              /\ (last.imported /\ RowTotalsMatch(row)
                     /\ ResultRefsResolve(last.pre, row)) =>
                    (i - 1) \notin FailedRows(last.report)

\* C12 witness: a first result for a constituency with total 10 = 6 + 4 and
\* resolving references was counted failed.
C12_MatchingRowRejected ==
    /\ ResultUploaded /\ last.imported
    /\ Len(last.pre.constituency_result) = 0
    /\ \E i \in 1..Len(last.file.table.rows) :
          /\ RowTotalsMatch(last.file.table.rows[i])
          /\ PyInt(last.file.table.rows[i]["total_votes"]).v = 10
          /\ ResultRefsResolve(last.pre, last.file.table.rows[i])
          /\ RowError(i - 1, <<"ValidationError">>) \in EntriesFor(last.report, i + 1)

\* male_voters + female_voters + other_voters <= total_voters on every stored
\* demographics record.
GenderWithinTotal(d) ==
    \A k \in 1..Len(d.voter_demographics) :
        d.voter_demographics[k].male_voters + d.voter_demographics[k].female_voters
          + d.voter_demographics[k].other_voters <= d.voter_demographics[k].total_voters
\* The gender counts a row carries (an absent or empty cell counts 0), when
\* they and total_voters are integers.
GenderCell(row, f) == IF Has(row, f) /\ NotNa(row[f]) THEN PyInt(row[f]) ELSE Ok(0)
GenderSum(row) ==
    GenderCell(row, "male_voters").v + GenderCell(row, "female_voters").v
      + GenderCell(row, "other_voters").v
GenderCountsAreInts(row) ==
    FirstExc(<<PyInt(row["total_voters"]), PyInt(row["election_year"]),
               GenderCell(row, "male_voters"), GenderCell(row, "female_voters"),
               GenderCell(row, "other_voters")>>) = ""
DemographicsImported ==
    Called /\ last.imported /\ last.import_type = "voter_demographics"
\* The stored demographics record the row targets, in the store the call
\* started from (0 when there is none).
DemographicsTarget(row) ==
    First(last.pre.voter_demographics,
          LAMBDA x : /\ x.constituency_id =
                          First(last.pre.constituency,
                                LAMBDA c : c.number = PyStr(row["constituency_number"]))
                     /\ x.election_year = PyInt(row["election_year"]).v)

\* C13: male_voters + female_voters + other_voters <= total_voters holds on
\* every stored demographics record after any demographics import; a row
\* whose gender sum exceeds its total_voters fails with the
\* gender-sum-exceeds-total error whether it targets a new or a stored
\* record, and leaves the store as it was; a row whose sum does not exceed the
\* total succeeds.
C13_GenderSumWithinTotal ==
    /\ GenderWithinTotal(db)
    /\ DemographicsImported =>
          \A i \in 1..Len(last.file.table.rows) :
              LET row == last.file.table.rows[i]
                  sound == /\ ConstituencyResolves(last.pre, row)
                           /\ GenderCountsAreInts(row)
                  alone == Import("voter_demographics", last.pre,
                                  Table(last.file.table.cols, <<row>>))
              IN /\ (sound /\ GenderSum(row) > PyInt(row["total_voters"]).v) =>
                       /\ EntriesFor(last.report, i + 1) =
                             {RowError(i - 1, <<"Sum of gender voters exceeds total voters",
                                                ToString(GenderSum(row)),
                                                ToString(PyInt(row["total_voters"]).v)>>)}
                       /\ alone.report.failed_rows = 1
                       /\ alone.db = last.pre
                 /\ (sound /\ GenderSum(row) <= PyInt(row["total_voters"]).v) =>
                       /\ EntriesFor(last.report, i + 1) = {}
                       /\ alone.report.successful_rows = 1

\* C13 witness: one import in which a row exceeding its total failed against
\* a stored record and the same row with a sum within the total was applied.
C13_ExceedingUpdateFailedFittingApplied ==
    /\ DemographicsImported /\ Len(last.file.table.rows) = 2
    /\ \A i \in 1..2 : DemographicsTarget(last.file.table.rows[i]) # 0
    /\ GenderSum(last.file.table.rows[1]) > PyInt(last.file.table.rows[1]["total_voters"]).v
    /\ GenderSum(last.file.table.rows[2]) = PyInt(last.file.table.rows[2]["total_voters"]).v
    /\ last.report.successful_rows = 1 /\ last.report.failed_rows = 1

DivisionValidated ==
    /\ Called /\ last.validated /\ last.import_type = "division"
    /\ {"name", "code"} \subseteq last.file.table.cols
\* How many rows of the last call's table carry the code.
Occurrences(code) ==
    Cardinality({j \in 1..Len(last.file.table.rows) :
                   last.file.table.rows[j]["code"] = code})
\* The duplicate-code errors the validator returned for a file line.
DuplicateErrors(row_num) ==
    {k \in 1..Len(Verdict.errors) :
        /\ Verdict.errors[k].row = row_num
        /\ Verdict.errors[k].error[1] = "Duplicate division code"}

\* C14: validate_division_csv returns one duplicate-code error for every row
\* whose code occurs more than once in the file (k occurrences draw k errors,
\* one per row), and none for a row whose code occurs once.
C14_DuplicateCodesFlaggedOnEveryRow ==
    DivisionValidated =>
        \A i \in 1..Len(last.file.table.rows) :
            LET code == last.file.table.rows[i]["code"] IN
            NotNa(code) =>
                Cardinality(DuplicateErrors(i + 1))
                    = (IF Occurrences(code) > 1 THEN 1 ELSE 0)

\* C14 witness: a file in which one code occurs twice next to a row without a
\* code; the validator raised and returned no error at all.
C14_DuplicateBesideEmptyCode ==
    /\ DivisionValidated
    /\ \E i \in 1..Len(last.file.table.rows) :
          /\ NotNa(last.file.table.rows[i]["code"])
          /\ Occurrences(last.file.table.rows[i]["code"]) = 2
    /\ \E i \in 1..Len(last.file.table.rows) : IsNa(last.file.table.rows[i]["code"])
    /\ Verdict.raised = "KeyError"
    /\ last.status # 200

\* No two records of a table agree on every field of a key.
UniqueOn(tbl, key) ==
    \A i, j \in 1..Len(tbl) : (\A f \in key : tbl[i][f] = tbl[j][f]) => i = j
NaturalKeys ==
    [party |-> {"name"},
     candidate |-> {"full_name", "constituency_id", "election_year"},
     polling_center |-> {"code"},
     polling_result |-> {"polling_center_id", "candidate_id", "election_year"},
     voter_demographics |-> {"constituency_id", "election_year"},
     constituency_result |-> {"constituency_id", "election_year", "election_type"}]

\* C15: import keeps the natural keys unique: no two parties with the same
\* name, no two candidates with the same (full_name, constituency_id,
\* election_year), no two polling centers with the same code, no two polling
\* results with the same (polling_center_id, candidate_id, election_year), no
\* two demographics records with the same (constituency_id, election_year), no
\* two constituency results with the same (constituency_id, election_year,
\* election_type); this holds also after a file that repeats a key.
C15_NaturalKeysUnique ==
    \A t \in DOMAIN NaturalKeys : UniqueOn(db[t], NaturalKeys[t])

\* C15 witness: a file whose two rows carry the same key was imported, both
\* rows succeeded, and the store gained exactly one record.
C15_RepeatedKeyImportedOnce ==
    /\ Called /\ last.imported /\ last.import_type \in DOMAIN NaturalKeys
    /\ last.report.successful_rows = 2
    /\ Len(db[last.import_type]) = Len(last.pre[last.import_type]) + 1

\* The answer of the last call is an import report or a dry-run preview.
Reported == Called /\ last.status = 200 /\ last.kind \in {"report", "preview"}
OneEntryPerFailedRow(report) ==
    /\ Len(report.errors) = report.failed_rows
    /\ \A i, j \in 1..Len(report.errors) :
          report.errors[i].row = report.errors[j].row => i = j
    /\ \A i \in 1..Len(report.errors) :
          {"row", "error"} \subseteq DOMAIN report.errors[i]

\* C16: in every import report and every dry-run preview errors holds exactly
\* one entry per failed row: as many entries as failed_rows, no two entries
\* with the same row number, every entry with a row and an error.
C16_OneErrorEntryPerFailedRow ==
    Reported => OneEntryPerFailedRow(last.report)

\* C16 witness: a dry-run preview with two error entries for the same file
\* line, each counted as a failed row.
C16_PreviewCountsOneRowTwice ==
    /\ Reported /\ last.kind = "preview"
    /\ Len(last.file.table.rows) = 1
    /\ last.report.failed_rows = 2
    /\ last.report.errors[1].row = last.report.errors[2].row

\* The stored candidates a constituency-result row may name as its winner:
\* those of the row's constituency and election_year carrying the name.
WinnerInScope(d, row) ==
    {c \in 1..Len(d.candidate) :
        /\ d.candidate[c].full_name = PyStr(row["winning_candidate_name"])
        /\ d.candidate[c].constituency_id =
              First(d.constituency, LAMBDA x : x.number = PyStr(row["constituency_number"]))
        /\ d.candidate[c].election_year = PyInt(row["election_year"]).v}
WinnerElsewhere(d, row) ==
    {c \in 1..Len(d.candidate) :
        d.candidate[c].full_name = PyStr(row["winning_candidate_name"])} \ WinnerInScope(d, row)
NamesWinner(row) ==
    Has(row, "winning_candidate_name") /\ NotNa(row["winning_candidate_name"])
ResultImported ==
    Called /\ last.imported /\ last.import_type = "constituency_result"

\* C17: the winning candidate of an imported constituency result is resolved
\* only among the candidates of the row's constituency and election_year: the
\* winning_candidate_id of every stored result names a candidate of the
\* result's constituency and year, and a row naming a winner with no match in
\* that scope fails with "Winning candidate not found" and writes no result.
C17_WinnerResolvedInScope ==
    /\ \A k \in 1..Len(db.constituency_result) :
          \A c \in db.constituency_result[k].winning_candidate_id :
              /\ c \in 1..Len(db.candidate)
              /\ db.candidate[c].constituency_id = db.constituency_result[k].constituency_id
              /\ db.candidate[c].election_year = db.constituency_result[k].election_year
    /\ ResultImported =>
          \A i \in 1..Len(last.file.table.rows) :
              LET row == last.file.table.rows[i]
                  alone == Import("constituency_result", last.pre,
                                  Table(last.file.table.cols, <<row>>))
              IN (/\ ConstituencyResolves(last.pre, row)
                  /\ PyInt(row["election_year"]).exc = ""
                  /\ NamesWinner(row)
                  /\ WinnerInScope(last.pre, row) = {}) =>
                     /\ EntriesFor(last.report, i + 1) =
                           {RowError(i - 1, <<"Winning candidate not found",
                                              PyStr(row["winning_candidate_name"])>>)}
                     /\ alone.report.failed_rows = 1
                     /\ alone.db = last.pre

\* C17 witness: a row named a winner who is stored only for another
\* constituency and for another year; the row failed and the store is as it
\* was.
C17_SameNameOutOfScope ==
    /\ ResultImported /\ Len(last.file.table.rows) = 1
    /\ NamesWinner(last.file.table.rows[1])
    /\ ConstituencyResolves(last.pre, last.file.table.rows[1])
    /\ WinnerInScope(last.pre, last.file.table.rows[1]) = {}
    /\ Cardinality(WinnerElsewhere(last.pre, last.file.table.rows[1])) = 2
    /\ last.report.failed_rows = 1
    /\ db = last.pre

\* C18: no operation modifies or deletes an ImportLog record: at every step,
\* import or read of the records, the records held before are still there,
\* in their places and with the same fields; the set only grows.
C18_ImportLogsOnlyGrow ==
    [][/\ Len(logs') >= Len(logs)
       /\ SubSeq(logs', 1, Len(logs)) = logs]_vars

\* C18 witness: a second import added a record next to the one the first
\* import wrote, and a read returned both.
C18_ReadAfterSecondRecord ==
    /\ calls = 2
    /\ Len(last.prelogs) >= 1 /\ Len(logs) > Len(last.prelogs)
    /\ seen.limit = DefaultLimit /\ seen.total = Len(logs)

\* C19: a non-dry-run geography import through import_csv writes one
\* ImportLog record carrying the kind imported, the file name, the counts and
\* errors of the report, the operator and the status.
C19_GeographyImportRecorded ==
    (Called /\ last.op = "import_csv" /\ ~last.dry_run /\ last.imported) =>
        /\ Len(NewLogs) = 1
        /\ NewLogs[1].import_type = last.import_type
        /\ NewLogs[1].file_name = last.file.name
        /\ NewLogs[1].total_rows = last.report.total_rows
        /\ NewLogs[1].successful_rows = last.report.successful_rows
        /\ NewLogs[1].failed_rows = last.report.failed_rows
        /\ NewLogs[1].errors = last.report.errors
        /\ NewLogs[1].user_id = last.user
        /\ NewLogs[1].status \in {"completed", "failed"}

\* C19 witness: import_csv stored two divisions and no ImportLog record was
\* written.
C19_GeographyImportLeftNoRecord ==
    /\ Called /\ last.op = "import_csv" /\ ~last.dry_run /\ last.imported
    /\ last.import_type = "division"
    /\ last.report.successful_rows = 2
    /\ Len(db.division) = Len(last.pre.division) + 2
    /\ logs = <<>>

DivisionImported == Called /\ last.imported /\ last.import_type = "division"
\* The stored division a row's code names, in the store the call started
\* from (0 when there is none).
DivisionTarget(row) ==
    First(last.pre.division, LAMBDA x : x.code = PyStr(row["code"]))

\* C20: a division row whose code equals a stored division's code updates
\* that division in place and is counted successful: it draws no error, the
\* stored division takes the row's name, and no division is inserted.
C20_StoredDivisionUpdatedInPlace ==
    DivisionImported =>
        \A i \in 1..Len(last.file.table.rows) :
            LET row == last.file.table.rows[i] IN
            DivisionTarget(row) # 0 =>
                /\ EntriesFor(last.report, i + 1) = {}
                /\ Len(last.file.table.rows) = 1 =>
                      /\ last.report.successful_rows = 1
                      /\ Len(db.division) = Len(last.pre.division)
                      /\ db.division[DivisionTarget(row)].name = PyStr(row["name"])

\* C20 witness: a one-row division file naming a stored code was counted
\* failed with an AttributeError and the stored division is as it was.
C20_StoredDivisionRowFailed ==
    /\ DivisionImported /\ Len(last.file.table.rows) = 1
    /\ DivisionTarget(last.file.table.rows[1]) # 0
    /\ last.report.failed_rows = 1
    /\ last.report.errors[1] = RowError(0, <<"AttributeError">>)
    /\ db = last.pre

\* The columns of a row that make up the natural key of the entity it names.
KeyColumns ==
    [division |-> {"code"},
     district |-> {"code", "division_name"},
     constituency |-> {"number", "district_name", "division_name"},
     party |-> {"name"},
     candidate |-> {"full_name", "constituency_number", "election_year"},
     polling_center |-> {"code"},
     polling_result |-> {"polling_center_code", "candidate_name",
                         "constituency_number", "election_year"},
     voter_demographics |-> {"constituency_number", "election_year"},
     constituency_result |-> {"constituency_number", "election_year", "election_type"}]
\* The last call imported a two-row file whose rows carry the same natural
\* key, the first row inserted a new entity, and the second row, imported
\* alone, is accepted too.
SecondRowRepeatsInsertedKey ==
    /\ Called /\ last.imported /\ Len(last.file.table.rows) = 2
    /\ \A c \in KeyColumns[last.import_type] \cap last.file.table.cols :
          PyStr(last.file.table.rows[1][c]) = PyStr(last.file.table.rows[2][c])
    /\ 0 \notin FailedRows(last.report)
    /\ Len(Import(last.import_type, last.pre,
                  Table(last.file.table.cols, <<last.file.table.rows[1]>>)).db[last.import_type])
          = Len(last.pre[last.import_type]) + 1
    /\ Import(last.import_type, last.pre,
              Table(last.file.table.cols, <<last.file.table.rows[2]>>)).report.successful_rows = 1

\* C21: within one import a row whose natural key equals that of an entity
\* inserted by an earlier row of the same file is handled as an update of
\* that entity and counted successful, for every kind: it is neither a second
\* insert nor a failure.
C21_LaterRowUpdatesEarlierInsert ==
    SecondRowRepeatsInsertedKey =>
        /\ last.report.successful_rows = 2
        /\ Len(db[last.import_type]) = Len(last.pre[last.import_type]) + 1

\* C21 witness: the second row of a constituency file named the constituency
\* its first row had inserted and was counted failed with an AttributeError.
C21_RepeatedConstituencyRowFailed ==
    /\ SecondRowRepeatsInsertedKey /\ last.import_type = "constituency"
    /\ last.report.errors = <<RowError(1, <<"AttributeError">>)>>

\* The last call ran the validator on a table with all required columns.
ValidatedWithColumns ==
    /\ Called /\ last.validated
    /\ Required(last.import_type) \subseteq last.file.table.cols

\* C22: a validator given a table with all required columns returns its
\* error list without raising, whatever the cells hold; validate_division_csv
\* reports "Division code is required" on every row whose code is blank or
\* missing and goes on with the other rows.
C22_ValidatorsReturnWithoutRaising ==
    ValidatedWithColumns =>
        /\ Verdict.raised = ""
        /\ last.import_type = "division" =>
              \A i \in 1..Len(last.file.table.rows) :
                  (IsNa(last.file.table.rows[i]["code"])
                     \/ PyStr(last.file.table.rows[i]["code"]) = "") =>
                      ColumnError(i + 1, "code", <<"Division code is required">>)
                          \in {Verdict.errors[k] : k \in 1..Len(Verdict.errors)}

\* C22 witness: validate_division_csv raised a KeyError on a file whose
\* second row has no code, and the call was answered with an error.
C22_DivisionValidatorRaised ==
    /\ ValidatedWithColumns /\ last.import_type = "division"
    /\ Len(last.file.table.rows) = 2
    /\ NotNa(last.file.table.rows[1]["code"])
    /\ IsNa(last.file.table.rows[2]["code"])
    /\ Verdict.raised = "KeyError"
    /\ last.status = 400 /\ last.kind = "error"

\* The kinds whose table carries election_year.
YearKinds == {"candidate", "polling_result", "voter_demographics", "constituency_result"}
YearRangeMsg == <<"Election year must be between 1970 and 2100">>
\* The messages the validator returned under a column of a data row, the
\* "is required" message aside.
ErrorsAt(i, col) ==
    {Verdict.errors[k].error :
        k \in {j \in 1..Len(Verdict.errors) :
                  /\ Verdict.errors[j].row = i + 1
                  /\ Verdict.errors[j].column = {col}}} \ {RequiredMsg(col)}
Given(row, col) == Has(row, col) /\ NotNa(row[col])
\* The cell is an integer outside lo..hi (hi = -1: no upper limit).
IntOutside(row, col, lo, hi) ==
    /\ Given(row, col) /\ PyInt(row[col]).exc = ""
    /\ (PyInt(row[col]).v < lo \/ (hi >= 0 /\ PyInt(row[col]).v > hi))
FloatOutside(row, col, lo, hi) ==
    /\ Given(row, col) /\ PyFloat(row[col]).exc = ""
    /\ (FloatBelow(row[col], lo) \/ FloatAbove(row[col], hi))
ValidatorReturned == ValidatedWithColumns /\ Verdict.raised = ""

\* C23: for candidate, polling result, voter demographics and constituency
\* result the validator reports a row whose election_year is a number
\* outside 1970..2100 under column election_year, and a row whose
\* election_year is not a number under the same column with another message;
\* age outside 21..150, negative votes_received and demographic counts,
\* latitude outside -90..90, longitude outside -180..180 and
\* turnout_percentage outside 0..100 are each reported on their row.
C23_OutOfRangeValuesReported ==
    ValidatorReturned =>
        \A i \in 1..Len(last.file.table.rows) :
            LET row == last.file.table.rows[i] IN
            /\ last.import_type \in YearKinds =>
                  /\ IntOutside(row, "election_year", 1970, 2100) =>
                        ErrorsAt(i, "election_year") = {YearRangeMsg}
                  /\ (Given(row, "election_year")
                         /\ PyInt(row["election_year"]).exc = "ValueError") =>
                        /\ ErrorsAt(i, "election_year") # {}
                        /\ YearRangeMsg \notin ErrorsAt(i, "election_year")
            /\ (last.import_type = "candidate" /\ IntOutside(row, "age", 21, 150)) =>
                  ErrorsAt(i, "age") # {}
            /\ (last.import_type = "polling_result"
                   /\ IntOutside(row, "votes_received", 0, -1)) =>
                  ErrorsAt(i, "votes_received") # {}
            /\ last.import_type = "voter_demographics" =>
                  \A f \in {"total_voters", "male_voters", "female_voters", "other_voters"} :
                      IntOutside(row, f, 0, -1) => ErrorsAt(i, f) # {}
            /\ last.import_type = "polling_center" =>
                  /\ FloatOutside(row, "latitude", -90, 90) => ErrorsAt(i, "latitude") # {}
                  /\ FloatOutside(row, "longitude", -180, 180) =>
                        ErrorsAt(i, "longitude") # {}
            /\ (last.import_type = "constituency_result"
                   /\ FloatOutside(row, "turnout_percentage", 0, 100)) =>
                  ErrorsAt(i, "turnout_percentage") # {}

\* C23 witness: the polling-result validator returned its errors for a row
\* whose election_year is not a number, none of them under election_year.
C23_TextYearNotReported ==
    /\ ValidatorReturned /\ last.import_type = "polling_result"
    /\ Len(last.file.table.rows) = 1
    /\ PyInt(last.file.table.rows[1]["election_year"]).exc = "ValueError"
    /\ ErrorsAt(1, "votes_received") # {}
    /\ ErrorsAt(1, "election_year") = {}

\* The file lines (first data row = line 2) a list of error entries names.
Lines(errors) == {errors[k].row : k \in 1..Len(errors)}
\* The data rows, numbered from 1, that fail when the rows are imported one
\* after the other.
RECURSIVE RowsThatFail(_, _, _, _, _)
RowsThatFailAfter(kind, cols, r, rows, i) ==
    (IF r.report.failed_rows = 1 THEN {i} ELSE {})
        \cup RowsThatFail(kind, cols, r.db, rows, i + 1)
RowsThatFail(kind, cols, d, rows, i) ==
    IF i > Len(rows) THEN {}
    ELSE RowsThatFailAfter(kind, cols, Import(kind, d, Table(cols, <<rows[i]>>)), rows, i)

\* C24: validators and importers number rows alike: an error about the data
\* row at zero-based position i carries row = i + 2, row 0 is used by the
\* missing-column error only, and every other error has 2 <= row <=
\* total_rows + 1.
C24_RowNumbersStartAtTwo ==
    /\ (Called /\ last.validated) =>
          /\ \A k \in 1..Len(Verdict.errors) :
                IF Verdict.errors[k].error[1] = "Missing required columns"
                THEN Verdict.errors[k].row = 0
                ELSE /\ Verdict.errors[k].row >= 2
                     /\ Verdict.errors[k].row <= Len(last.file.table.rows) + 1
          /\ ValidatorReturned =>
                \A i \in 1..Len(last.file.table.rows) :
                    \A e \in {Validate(last.import_type,
                                       Table(last.file.table.cols,
                                             <<last.file.table.rows[i]>>)).errors} :
                        \A k \in 1..Len(e) :
                            \E j \in 1..Len(Verdict.errors) :
                                /\ Verdict.errors[j].row = (i - 1) + 2
                                /\ Verdict.errors[j].column = e[k].column
                                /\ Verdict.errors[j].error = e[k].error
    /\ (Called /\ last.imported) =>
          Lines(last.report.errors) =
              {(i - 1) + 2 : i \in RowsThatFail(last.import_type, last.file.table.cols,
                                                last.pre, last.file.table.rows, 1)}

\* C24 witness: an import whose first row succeeded and whose second row
\* failed reports its one error on row 3.
C24_SecondDataRowIsRowThree ==
    /\ Called /\ last.imported /\ Len(last.file.table.rows) = 2
    /\ last.report.successful_rows = 1
    /\ Lines(last.report.errors) = {3}
    /\ RowsThatFail(last.import_type, last.file.table.cols,
                    last.pre, last.file.table.rows, 1) = {2}

\* The optional fields a candidate or party row may carry.
OptionalFields ==
    [candidate |-> {"bengali_name", "age", "education", "profession",
                    "candidate_number", "deposit_status"},
     party |-> {"acronym", "symbol_name", "color_code"}]
\* The last call imported one row that was applied to a stored candidate or
\* party: it succeeded and inserted nothing.
StoredEntityUpdated ==
    /\ Called /\ last.imported /\ last.import_type \in DOMAIN OptionalFields
    /\ Len(last.file.table.rows) = 1
    /\ last.report.successful_rows = 1
    /\ Len(db[last.import_type]) = Len(last.pre[last.import_type])
\* The stored candidate a row names, in the store the call started from.
CandidateTarget(row) ==
    First(last.pre.candidate,
          LAMBDA x : /\ x.full_name = PyStr(row["full_name"])
                     /\ x.constituency_id =
                          First(last.pre.constituency,
                                LAMBDA c : c.number = PyStr(row["constituency_number"]))
                     /\ x.election_year = PyInt(row["election_year"]).v)

\* C25: a row that matches a stored entity applies only the fields it
\* carries: an optional field whose column is absent from the table keeps its
\* stored value, while is_active becomes true when its column is absent.
C25_AbsentColumnsKeepStoredValues ==
    StoredEntityUpdated =>
        /\ \A k \in 1..Len(last.pre[last.import_type]) :
              \A f \in OptionalFields[last.import_type] \ last.file.table.cols :
                  db[last.import_type][k][f] = last.pre[last.import_type][k][f]
        /\ (last.import_type = "candidate" /\ "is_active" \notin last.file.table.cols) =>
              db.candidate[CandidateTarget(last.file.table.rows[1])].is_active

\* C25 witness: a candidate stored with an age was updated by a row of a
\* table without the age column, and the stored age is gone.
C25_StoredAgeErased ==
    /\ StoredEntityUpdated /\ last.import_type = "candidate"
    /\ "age" \notin last.file.table.cols
    /\ last.pre.candidate[CandidateTarget(last.file.table.rows[1])].age # None
    /\ db.candidate[CandidateTarget(last.file.table.rows[1])].age = None
    /\ db.candidate[CandidateTarget(last.file.table.rows[1])].is_active


\* The stored divisions named as the row names its division, and the stored
\* districts of those divisions named as the row names its district.
DivisionsNamed(d, row) ==
    {i \in 1..Len(d.division) : d.division[i].name = PyStr(row["division_name"])}
DistrictsNamed(d, row) ==
    {i \in 1..Len(d.district) :
        /\ d.district[i].name = PyStr(row["district_name"])
        /\ d.district[i].division_id \in DivisionsNamed(d, row)}
\* The one error of a single-row import starts with msg and the store is as
\* it was.
RowFailedWith(d, r, msg) ==
    /\ r.report.failed_rows = 1
    /\ r.report.errors[1].error[1] = msg
    /\ r.db = d
\* Every record of table t that the import added or changed has its parent
\* reference in the set parents.
ChangedOnlyUnder(d, r, t, ref, parents) ==
    /\ Len(r.db[t]) >= Len(d[t])
    /\ \A k \in 1..Len(r.db[t]) :
          \/ k <= Len(d[t]) /\ r.db[t][k] = d[t][k]
          \/ r.db[t][k][ref] \in parents
\* One geography row placed under the parent its names resolve to.
RowPlaced(kind, d, row, r) ==
    IF kind = "district"
    THEN IF DivisionsNamed(d, row) = {}
         THEN RowFailedWith(d, r, "Division not found")
         ELSE ChangedOnlyUnder(d, r, "district", "division_id", DivisionsNamed(d, row))
    ELSE IF DivisionsNamed(d, row) = {}
         THEN RowFailedWith(d, r, "Division not found")
         ELSE IF DistrictsNamed(d, row) = {}
         THEN RowFailedWith(d, r, "District not found")
         ELSE ChangedOnlyUnder(d, r, "constituency", "district_id", DistrictsNamed(d, row))
RECURSIVE RowsPlaced(_, _, _, _, _)
RowsPlaced(kind, cols, d, rows, i) ==
    IF i > Len(rows) THEN TRUE
    ELSE \E r \in {Import(kind, d, Table(cols, <<rows[i]>>))} :
            /\ RowPlaced(kind, d, rows[i], r)
            /\ RowsPlaced(kind, cols, r.db, rows, i + 1)
\* Every stored child references a stored parent, and no parent has two
\* children of one code or number.
HierarchyIntact(d) ==
    /\ \A i \in 1..Len(d.district) :
          d.district[i].division_id \in 1..Len(d.division)
    /\ \A i \in 1..Len(d.constituency) :
          d.constituency[i].district_id \in 1..Len(d.district)
    /\ UniqueOn(d.district, {"code", "division_id"})
    /\ UniqueOn(d.constituency, {"number", "district_id"})
GeographyImported ==
    /\ Called /\ last.imported
    /\ last.import_type \in {"district", "constituency"}

ResultTargets(d, row) ==
    {k \in 1..Len(d.polling_result) :
        /\ d.polling_result[k].polling_center_id \in 1..Len(d.polling_center)
        /\ d.polling_result[k].candidate_id \in 1..Len(d.candidate)
        /\ d.polling_center[d.polling_result[k].polling_center_id].code
              = PyStr(row["polling_center_code"])
        /\ d.candidate[d.polling_result[k].candidate_id].full_name
              = PyStr(row["candidate_name"])
        /\ d.candidate[d.polling_result[k].candidate_id].constituency_id
              = First(d.constituency,
                      LAMBDA x : x.number = PyStr(row["constituency_number"]))
        /\ PyInt(row["election_year"]).exc = ""
        /\ d.polling_result[k].election_year = PyInt(row["election_year"]).v}
\* The import r of one row changed, of the stored results, only the votes
\* and the percentage of the results in targets.
OnlyVotesReplaced(d, r, row, targets) ==
    /\ Len(r.db.polling_result) = Len(d.polling_result)
    /\ \A k \in 1..Len(d.polling_result) :
          IF k \in targets /\ r.report.failed_rows = 0
          THEN r.db.polling_result[k] =
                 [d.polling_result[k] EXCEPT
                     !.votes_received = PyInt(row["votes_received"]).v,
                     !.vote_percentage = None]
          ELSE r.db.polling_result[k] = d.polling_result[k]
RECURSIVE MatchedResultsKeepFrame(_, _, _, _)
MatchedResultsKeepFrame(cols, d, rows, i) ==
    IF i > Len(rows) THEN TRUE
    ELSE \E r \in {Import("polling_result", d, Table(cols, <<rows[i]>>))} :
            /\ ResultTargets(d, rows[i]) # {} =>
                   OnlyVotesReplaced(d, r, rows[i], ResultTargets(d, rows[i]))
            /\ MatchedResultsKeepFrame(cols, r.db, rows, i + 1)
PollingResultImported ==
    Called /\ last.imported /\ last.import_type = "polling_result"

\* C27: a polling-result row that matches a stored result by polling center,
\* candidate and election year replaces votes_received by the row's value
\* and unsets vote_percentage, and leaves is_valid, remarks and the key
\* fields of that result as stored, whatever the row carries; no stored
\* result ever has a vote_percentage.
C27_MatchedResultKeepsOtherFields ==
    /\ \A k \in 1..Len(db.polling_result) : db.polling_result[k].vote_percentage = None
    /\ PollingResultImported =>
          MatchedResultsKeepFrame(last.file.table.cols, last.pre,
                                  last.file.table.rows, 1)
\* A stored valid result took new votes from a row that carries is_valid
\* false and a remark.
C27_VotesReplacedFlagsKept ==
    /\ PollingResultImported /\ Len(last.file.table.rows) = 1
    /\ {"is_valid", "remarks"} \subseteq last.file.table.cols
    /\ last.file.table.rows[1]["is_valid"] = B(FALSE)
    /\ last.file.table.rows[1]["remarks"] # NaN
    /\ ResultTargets(last.pre, last.file.table.rows[1]) = {1}
    /\ last.report.successful_rows = 1
    /\ last.pre.polling_result[1].is_valid = TRUE
    /\ db.polling_result[1].is_valid = TRUE
    /\ db.polling_result[1].remarks = None
    /\ db.polling_result[1].votes_received # last.pre.polling_result[1].votes_received

\* The constituency the importers of candidates, polling centers, polling
\* results, voter demographics and constituency results attach a row of this
\* number to: the first stored constituency of the number.
ResolvedByNumber(d, number) == First(d.constituency, LAMBDA x : x.number = number)

\* C28: in every reachable store at most one constituency has a given
\* number, so a row that names a constituency by number is attached to the
\* constituency it means, whichever district that one belongs to.
C28_ConstituencyNumberResolvesToOne ==
    UniqueOn(db.constituency, {"number"})
\* A constituency stored by the last import shares its number with one of
\* another district, and the number resolves to the other one.
C28_NumberSharedAcrossDistricts ==
    /\ Called /\ last.imported /\ last.import_type = "constituency"
    /\ Len(db.constituency) = Len(last.pre.constituency) + 1
    /\ ResolvedByNumber(db, db.constituency[Len(db.constituency)].number)
          \notin {0, Len(db.constituency)}
    /\ db.constituency[ResolvedByNumber(db,
            db.constituency[Len(db.constituency)].number)].district_id
          # db.constituency[Len(db.constituency)].district_id

\* The answer of the last call is a dry-run preview.
Previewed == Called /\ last.status = 200 /\ last.kind = "preview"

\* C29: the counts of every dry-run preview are row counts of the table:
\* successful_rows and failed_rows both lie between 0 and total_rows.
C29_PreviewCountsWithinTotal ==
    Previewed =>
        /\ 0 <= last.report.successful_rows
        /\ last.report.successful_rows <= last.report.total_rows
        /\ 0 <= last.report.failed_rows
        /\ last.report.failed_rows <= last.report.total_rows
\* A preview reports fewer than no successful rows: the table's rows break
\* more rules than it has rows.
C29_PreviewCountsBelowZero ==
    /\ Previewed
    /\ last.report.total_rows >= 1
    /\ last.report.successful_rows < 0
    /\ last.report.failed_rows > last.report.total_rows

\* The last call was a bulk_import of an unsupported type or of a file not
\* named *.csv.
BulkImportRefused ==
    /\ Called /\ last.op = "bulk_import"
    /\ last.import_type \notin BulkKinds \/ ~EndsWithCsv(last.file.name)

\* C30: bulk_import of an unsupported import type, or of a file whose name
\* does not end in .csv, is answered with a client error before the file is
\* read: no validator and no importer runs, the store is as it was and no
\* ImportLog record is written.
C30_RefusedBeforeReadingFile ==
    BulkImportRefused =>
        /\ last.status = 400 /\ last.kind = "error"
        /\ last.detail.text[1] \in {"Unsupported import type", "Only CSV files are allowed"}
        /\ ~last.validated /\ ~last.imported /\ last.attempted = <<>>
        /\ db = last.pre
        /\ logs = last.prelogs
\* bulk_import refused a well-formed division table that its validator and
\* importer would have taken.
C30_UnsupportedTypeRefused ==
    /\ BulkImportRefused /\ ~last.dry_run
    /\ last.import_type = "division" /\ EndsWithCsv(last.file.name)
    /\ last.file.parse = "ok" /\ Len(last.file.table.rows) >= 1
    /\ Validate("division", last.file.table).raised = ""
    /\ Validate("division", last.file.table).errors = <<>>
    /\ Import("division", last.pre, last.file.table).db # last.pre
    /\ last.detail.text = <<"Unsupported import type", "division">>
    /\ db = last.pre /\ logs = <<>>
====
